---- MODULE Spec2Model ----
(***************************************************************************)
(* Campus Life Planner: the state store (state.js), its task, settings and *)
(* import actions, the validators they call and the storage adapter.       *)
(*                                                                         *)
(* Representation.  A JavaScript string is a sequence of one-character     *)
(* strings (<<"a", " ">> is "a "), so that trimming and the validation     *)
(* patterns are computed character by character.  A numeric duration is an *)
(* integer number of thousandths (2.5 is 2500): String(n) has at most two  *)
(* decimals exactly when the number is a multiple of 10.  A due date is    *)
(* <<year, month, day>> and the empty string is <<>>.  A timestamp is the  *)
(* clock value at which it was taken; the clock counts the days since      *)
(* January 1, 1970, the origin of Date.now().                              *)
(***************************************************************************)
EXTENDS Integers, Sequences, FiniteSets, TLC

VARIABLES
  state,            \* StateManager.state
  history,          \* StateManager.history
  listeners,        \* StateManager.listeners: key -> callbacks in insertion order
  storage,          \* localStorage[STORAGE_KEY], parsed
  settingsStorage,  \* localStorage[SETTINGS_KEY], parsed
  now,              \* the last value read from Date.now()
  searchCache,      \* SearchManager.searchCache: cache key -> the list cached
  run,              \* the frame of the call that is running: its locals and position
  input,            \* the arguments the function under study is applied to
  last              \* the call that returned last: its arguments, result and effects

vars ==
  <<state, history, listeners, storage, settingsStorage, now, searchCache, run, input, last>>

\* what the store, the storage and the search manager do not touch
aux == <<run, input>>

(***************************************************************************)
(* Bounds of the model.                                                    *)
(***************************************************************************)
MaxOps == 3          \* store actions per run
MaxNow == 2          \* last clock value
StackLimit == 3      \* nested setState calls the engine's call stack holds

(***************************************************************************)
(* Values.                                                                 *)
(***************************************************************************)
Null == "null"       \* null in a string-valued place (error, success)
Undefined == "undefined"
NoStamp == 0         \* null or undefined in a timestamp-valued place
NoTag == <<>>        \* null in a tag-valued place (topTag)
EmptyObject == [k \in {} |-> Null]   \* {}

RECURSIVE SumSeq(_)
SumSeq(s) == IF s = <<>> THEN 0 ELSE Head(s) + SumSeq(Tail(s))

\* { ...a, ...b }
Spread(a, b) == [k \in DOMAIN a \cup DOMAIN b |-> IF k \in DOMAIN b THEN b[k] ELSE a[k]]

(***************************************************************************)
(* validators.js                                                           *)
(***************************************************************************)
IsSpace(c) == c \in {" ", "\t", "\n"}
IsLineBreak(c) == c = "\n"
IsWordChar(c) == c \in {"a", "b", "H", "W", "1", "_"}
IsTagChar(c) == IsWordChar(c) \/ IsSpace(c) \/ c \in {"&", "(", ")", ",", "-"}

RECURSIVE TrimStart(_)
TrimStart(s) == IF s # <<>> /\ IsSpace(Head(s)) THEN TrimStart(Tail(s)) ELSE s

RECURSIVE TrimEnd(_)
TrimEnd(s) ==
  IF s # <<>> /\ IsSpace(s[Len(s)]) THEN TrimEnd(SubSeq(s, 1, Len(s) - 1)) ELSE s

\* String.prototype.trim
Trim(s) == TrimEnd(TrimStart(s))

\* /^\S(?:.*\S)?$/
TitlePattern(v) ==
  /\ Len(v) >= 1
  /\ ~IsSpace(v[1])
  /\ ~IsSpace(v[Len(v)])
  /\ \A i \in 2..(Len(v) - 1) : ~IsLineBreak(v[i])

\* /^[\w\s&(),-]+$/
TagPattern(v) == Len(v) >= 1 /\ \A i \in 1..Len(v) : IsTagChar(v[i])

\* /^(0|[1-9]\d*)(\.\d{1,2})?$/ on String(n) of a number n of thousandths
DurationPattern(v) == v >= 0 /\ v % 10 = 0

IsLeapYear(y) == (y % 4 = 0 /\ y % 100 # 0) \/ y % 400 = 0

DaysInMonth(y, m) ==
  IF m = 2 THEN (IF IsLeapYear(y) THEN 29 ELSE 28)
  ELSE IF m \in {4, 6, 9, 11} THEN 30 ELSE 31

\* /^\d{4}-(0[1-9]|1[0-2])-(0[1-9]|[12]\d|3[01])(?:T...)?$/ on a date without time
DatePattern(v) == Len(v) = 3 /\ v[1] \in 0..9999 /\ v[2] \in 1..12 /\ v[3] \in 1..31

\* new Date(datePart) is a date and toISOString() gives datePart back
DateRoundTrips(v) ==
  /\ Len(v) = 3
  /\ v[2] \in 1..12
  /\ v[3] \in 1..DaysInMonth(v[1], v[2])

MaxDurationHours == 1000
MaxTagLength == 100

\* VALIDATION_RULES[field].test
RuleTest(field, v) ==
  CASE field = "title" -> v # <<>> /\ Len(Trim(v)) > 0
    [] field = "duration" -> v > 0 /\ v <= MaxDurationHours * 1000
    [] field = "dueDate" -> DateRoundTrips(v)
    [] field = "tag" -> v # <<>> /\ Len(Trim(v)) > 0 /\ Len(v) <= MaxTagLength

\* VALIDATION_RULES[field].pattern.test
RulePattern(field, v) ==
  CASE field = "title" -> TitlePattern(v)
    [] field = "duration" -> DurationPattern(v)
    [] field = "dueDate" -> DatePattern(v)
    [] field = "tag" -> TagPattern(v)

RuleMessage(field) ==
  CASE field = "title" -> "Title cannot have leading/trailing spaces"
    [] field = "duration" -> "Duration must be a positive number with up to 2 decimal places"
    [] field = "dueDate" -> "Due date must be in YYYY-MM-DD or YYYY-MM-DDTHH:MM format"
    [] field = "tag" -> "Priority must be selected from the dropdown"

\* validateField(fieldName, value).isValid for the fields that have a rule
validateField(field, v) == RuleTest(field, v) /\ RulePattern(field, v)

requiredFields == <<"title", "dueDate", "duration", "tag">>

\* !task[field]: '' for a string, 0 for a number
IsFalsy(field, v) == IF field = "duration" THEN v = 0 ELSE v = <<>>

RequiredFieldSet == {requiredFields[i] : i \in 1..Len(requiredFields)}

\* validateTask(task).errors
validateTaskErrors(task) ==
  LET bad == {f \in RequiredFieldSet : IsFalsy(f, task[f]) \/ ~validateField(f, task[f])}
  IN [f \in bad |-> IF IsFalsy(f, task[f]) THEN "is required" ELSE RuleMessage(f)]

\* validateTask(task): warnings are not errors and are left out
validateTask(task) ==
  LET errors == validateTaskErrors(task)
  IN [isValid |-> DOMAIN errors = {}, errors |-> errors]

(***************************************************************************)
(* storage.js                                                              *)
(***************************************************************************)
\* generateId(): `task_${Date.now()}_${Math.random()...}`
generateId(t, r) == <<t, r>>

\* generateTimestamp()
generateTimestamp(t) == t

\* loadSettings(): the defaults overlaid with what is stored
DefaultDurationCap == 40
defaultSettings == [timeUnit |-> "hours", durationCap |-> DefaultDurationCap * 1000]
loadSettings(stored) == Spread(defaultSettings, stored)

(***************************************************************************)
(* state.js: StateManager                                                  *)
(***************************************************************************)
initialState ==
  [tasks |-> <<>>,
   settings |-> EmptyObject,
   isLoading |-> FALSE,
   error |-> Null,
   success |-> Null,
   formErrors |-> EmptyObject,
   stats |-> [totalTasks |-> 0, totalDuration |-> 0, topTag |-> NoTag,
              weekTasks |-> 0, overdueTasks |-> 0, completedTasks |-> 0],
   capSettings |-> [durationCap |-> DefaultDurationCap * 1000, currentWeekDuration |-> 0,
                    isOverCap |-> FALSE, capStatus |-> "success"]]

\* Object.keys(this.state): the keys in the order initialState lists them
StateKeys ==
  <<"tasks", "settings", "isLoading", "error", "success", "formErrors", "stats",
    "capSettings">>

\* the keys whose value is an object that is not an array
ObjectKeys == {"settings", "formErrors", "stats", "capSettings", "activeFilters"}

maxHistorySize == 50

\* An update object is the sequence of its <<key, value>> pairs, in the order
\* Object.keys gives them.
UpdKeys(u) == [i \in 1..Len(u) |-> u[i][1]]
UpdHas(u, k) == \E i \in 1..Len(u) : u[i][1] = k
UpdGet(u, k) == u[CHOOSE i \in 1..Len(u) : u[i][1] = k][2]

\* deepMerge(target, source): the values nested in an object key are scalars
deepMerge(target, source) ==
  [k \in DOMAIN target \cup {source[i][1] : i \in 1..Len(source)} |->
     IF UpdHas(source, k)
     THEN IF k \in ObjectKeys
          THEN Spread(IF k \in DOMAIN target THEN target[k] ELSE EmptyObject,
                      UpdGet(source, k))
          ELSE UpdGet(source, k)
     ELSE target[k]]

\* addToHistory that drops the entry it has just pushed when the history is full
addToHistory_DropsNewest(hist, prevState, newState, t) ==
  IF Len(hist) >= maxHistorySize THEN hist
  ELSE Append(hist, [timestamp |-> t, prevState |-> prevState, newState |-> newState])

\* addToHistory(prevState, newState)
addToHistory(hist, prevState, newState, t) ==
  LET pushed == Append(hist, [timestamp |-> t, prevState |-> prevState,
                              newState |-> newState])
  IN IF Len(pushed) > maxHistorySize THEN Tail(pushed) ELSE pushed

\* a callback that throws when it is called
Throws(cb) == cb = "thrower"

ListenersOf(key) == IF key \in DOMAIN listeners THEN listeners[key] ELSE <<>>

\* the call of one callback without the try around it: what it throws leaves
\* the forEach
CallOne_NoCatch(cb, key, newValue, oldValue) ==
  [key |-> key, cb |-> cb, value |-> newValue, old |-> oldValue,
   threw |-> Throws(cb), caught |-> FALSE]

\* try { callback(this.state[key], prevState[key], this.state) } catch (error) { ... }
CallOne(cb, key, newValue, oldValue) ==
  [key |-> key, cb |-> cb, value |-> newValue, old |-> oldValue,
   threw |-> Throws(cb), caught |-> Throws(cb)]

\* an exception left the calls made
Escaped(calls) == \E i \in 1..Len(calls) : calls[i].threw /\ ~calls[i].caught

RECURSIVE CallAll(_, _, _, _)
\* listeners.forEach(callback => ...): the calls made, in order; an exception
\* that is not caught ends the loop
CallAll(cbs, key, newValue, oldValue) ==
  IF cbs = <<>> THEN <<>>
  ELSE LET call == CallOne(Head(cbs), key, newValue, oldValue)
       IN IF call.threw /\ ~call.caught THEN <<call>>
          ELSE <<call>> \o CallAll(Tail(cbs), key, newValue, oldValue)

RECURSIVE notifyListeners(_, _, _)
\* notifyListeners(updates, prevState): the calls made, in order.  prevState is
\* a record; a key it lacks reads as undefined.
notifyListeners(keys, st, prevState) ==
  IF keys = <<>> THEN <<>>
  ELSE LET key == Head(keys)
           old == IF key \in DOMAIN prevState THEN prevState[key] ELSE Undefined
           made == CallAll(ListenersOf(key), key, st[key], old)
       IN IF Escaped(made) THEN made
          ELSE made \o notifyListeners(Tail(keys), st, prevState)

\* The store while a handler runs: the state, the history, the subscriber calls
\* made so far and whether an exception left notifyListeners.
Store(st, hist) == [state |-> st, history |-> hist, calls |-> <<>>, escaped |-> FALSE]

\* setState(updates, saveToHistory)
setState(S, updates, saveToHistory, t) ==
  LET prevState == S.state
      new == deepMerge(S.state, updates)
      made == notifyListeners(UpdKeys(updates), new, prevState)
  IN [state |-> new,
      history |-> IF saveToHistory THEN addToHistory(S.history, prevState, new, t)
                  ELSE S.history,
      calls |-> S.calls \o made,
      escaped |-> S.escaped \/ Escaped(made)]

\* subscribe(key, callback): a Set keeps one entry per callback, in insertion order
subscribe(ls, key, cb) ==
  LET cur == IF key \in DOMAIN ls THEN ls[key] ELSE <<>>
  IN [k \in DOMAIN ls \cup {key} |->
        IF k # key THEN ls[k]
        ELSE IF \E i \in 1..Len(cur) : cur[i] = cb THEN cur ELSE Append(cur, cb)]

\* the function subscribe returned: listeners.delete(callback)
unsubscribe(ls, key, cb) ==
  [ls EXCEPT ![key] = SelectSeq(@, LAMBDA c : c # cb)]

(***************************************************************************)
(* state.js: taskActions                                                   *)
(***************************************************************************)
RECURSIVE DaysBeforeYear(_)
DaysBeforeYear(y) ==
  IF y <= 1970 THEN 0
  ELSE (IF IsLeapYear(y - 1) THEN 366 ELSE 365) + DaysBeforeYear(y - 1)

RECURSIVE DaysBeforeMonth(_, _)
DaysBeforeMonth(y, m) ==
  IF m <= 1 THEN 0 ELSE DaysInMonth(y, m - 1) + DaysBeforeMonth(y, m - 1)

\* new Date(dueDate) on the clock's scale
DayNumber(v) == DaysBeforeYear(v[1]) + DaysBeforeMonth(v[1], v[2]) + v[3] - 1

\* new Date(task.dueDate) < now; an invalid date compares false
DueBefore(v, t) == DateRoundTrips(v) /\ DayNumber(v) < t

WeekDays == 7

\* tasks.filter(...).length, given which tasks pass the filter
Count(flags) == Len(SelectSeq(flags, LAMBDA b : b))

\* the tags in the order Object.entries(tagCounts) lists them: first occurrence
RECURSIVE TagOrder(_, _)
TagOrder(tasks, seen) ==
  IF tasks = <<>> THEN <<>>
  ELSE LET tag == Head(tasks).tag
       IN IF tag = <<>> \/ tag \in seen THEN TagOrder(Tail(tasks), seen)
          ELSE <<tag>> \o TagOrder(Tail(tasks), seen \cup {tag})

\* tagEntries.sort((a, b) => b[1] - a[1])[0][0]: the first tag with the top count
TopTag(tasks) ==
  LET order == TagOrder(tasks, {})
      n(tag) == Count([i \in 1..Len(tasks) |-> tasks[i].tag = tag])
  IN IF order = <<>> THEN NoTag
     ELSE order[CHOOSE i \in 1..Len(order) :
                  /\ \A j \in 1..Len(order) : n(order[j]) <= n(order[i])
                  /\ \A j \in 1..(i - 1) : n(order[j]) < n(order[i])]

\* the completion timestamp calculateStats uses: completedAt, else updatedAt
CompletionStamp(task) ==
  IF task.completedAt # NoStamp THEN task.completedAt ELSE task.updatedAt

CompletedInWeek(task, t) ==
  /\ task.completed
  /\ CompletionStamp(task) # NoStamp
  /\ CompletionStamp(task) >= t - WeekDays
  /\ CompletionStamp(task) <= t

\* the stats object calculateStats derives from the collection at time t
computeStats(tasks, t) ==
  [totalTasks |-> Len(tasks),
   totalDuration |-> SumSeq([i \in 1..Len(tasks) |-> tasks[i].duration]),
   topTag |-> TopTag(tasks),
   weekTasks |-> Count([i \in 1..Len(tasks) |->
                          tasks[i].createdAt # NoStamp /\ tasks[i].createdAt >= t - WeekDays]),
   overdueTasks |-> Count([i \in 1..Len(tasks) |-> DueBefore(tasks[i].dueDate, t)]),
   completedTasks |-> Count([i \in 1..Len(tasks) |-> tasks[i].completed]),
   completedDurationWeek |->
     SumSeq([i \in 1..Len(tasks) |->
               IF CompletedInWeek(tasks[i], t) THEN tasks[i].duration ELSE 0])]

WarningPercent == 80
FullPercent == 100

\* updateCapStatus(stateManager, currentDuration); useTotal stands for a null
\* currentDuration.  Amounts are thousandths, the quotient is taken exactly.
updateCapStatus(S, currentDuration, useTotal, t) ==
  LET settings == S.state.settings
      durationCap == IF "durationCap" \in DOMAIN settings /\ settings.durationCap # 0
                     THEN settings.durationCap ELSE DefaultDurationCap * 1000
      actualDuration == IF useTotal THEN S.state.stats.totalDuration ELSE currentDuration
      capStatus == IF actualDuration * 100 > FullPercent * durationCap THEN "success"
                   ELSE IF actualDuration * 100 > WarningPercent * durationCap THEN "warning"
                   ELSE "success"
      capSettings == [durationCap |-> durationCap,
                      currentWeekDuration |-> actualDuration,
                      isOverCap |-> actualDuration > durationCap,
                      capStatus |-> capStatus,
                      percentage |-> (200 * actualDuration + durationCap) \div (2 * durationCap)]
  IN setState(S, <<<<"capSettings", capSettings>>>>, TRUE, t)

\* calculateStats(stateManager)
calculateStats(S, t) ==
  LET stats == computeStats(S.state.tasks, t)
      S1 == setState(S, <<<<"stats", stats>>>>, TRUE, t)
  IN updateCapStatus(S1, stats.completedDurationWeek, FALSE, t)

\* what a handler leaves behind: the store, both storage keys, what it returned
\* and whether it called saveTasks
Outcome(S, stored, storedSettings, result, wrote) ==
  [S |-> S, storage |-> stored, settingsStorage |-> storedSettings,
   result |-> result, wrote |-> wrote]

\* the task addTask builds from the form data
newTaskOf(taskData, id, t) ==
  [id |-> id,
   title |-> Trim(taskData.title),
   dueDate |-> taskData.dueDate,
   duration |-> taskData.duration,
   tag |-> Trim(taskData.tag),
   description |-> Trim(taskData.description),
   completed |-> FALSE,
   createdAt |-> generateTimestamp(t),
   updatedAt |-> generateTimestamp(t),
   completedAt |-> NoStamp]

\* the new task put first instead of last
appendTask_Front(tasks, newTask) == <<newTask>> \o tasks

\* [...stateManager.getState('tasks'), newTask]
appendTask(tasks, newTask) == Append(tasks, newTask)

\* the attempted change kept in memory although the write failed
saveFailed_KeepsChange(S, updatedTasks, message, t) ==
  setState(S, <<<<"tasks", updatedTasks>>, <<"error", message>>>>, TRUE, t)

\* the else branch of `if (saveTasks(updatedTasks))`: only the error is set
saveFailed(S, updatedTasks, message, t) ==
  setState(S, <<<<"error", message>>>>, TRUE, t)

\* addTask(taskData, stateManager); saveOk: whether localStorage.setItem succeeds
addTask(S, stored, storedSettings, taskData, id, saveOk, t) ==
  LET validation == validateTask(taskData)
      updatedTasks == appendTask(S.state.tasks, newTaskOf(taskData, id, t))
  IN IF ~validation.isValid
     THEN Outcome(setState(S, <<<<"error", "Invalid task data">>,
                                <<"formErrors", validation.errors>>>>, TRUE, t),
                  stored, storedSettings, FALSE, FALSE)
     ELSE IF saveOk
     THEN Outcome(calculateStats(
                    setState(S, <<<<"tasks", updatedTasks>>,
                                  <<"success", "Task added successfully">>,
                                  <<"error", Null>>,
                                  <<"formErrors", EmptyObject>>>>, TRUE, t), t),
                  updatedTasks, storedSettings, TRUE, TRUE)
     ELSE Outcome(saveFailed(S, updatedTasks, "Failed to save task", t),
                  stored, storedSettings, FALSE, TRUE)

\* tasks.findIndex(task => task.id === taskId): 0 stands for -1
findIndex(tasks, taskId) ==
  IF \E i \in 1..Len(tasks) : tasks[i].id = taskId
  THEN CHOOSE i \in 1..Len(tasks) :
         tasks[i].id = taskId /\ \A j \in 1..(i - 1) : tasks[j].id # taskId
  ELSE 0

\* the completedAt rule of updateTask, applied to the merged record
applyCompletedAt(prevTask, updates, merged, t) ==
  IF "completed" \notin DOMAIN updates THEN merged
  ELSE LET wasCompleted == prevTask.completed
           willBeCompleted == updates.completed
           m1 == IF ~wasCompleted /\ willBeCompleted
                 THEN [merged EXCEPT !.completedAt = generateTimestamp(t)]
                 ELSE IF wasCompleted /\ ~willBeCompleted
                 THEN [merged EXCEPT !.completedAt = NoStamp]
                 ELSE merged
       IN IF wasCompleted /\ willBeCompleted /\ prevTask.completedAt = NoStamp
          THEN [m1 EXCEPT !.completedAt = m1.updatedAt]
          ELSE m1

\* { ...prevTask, ...updates, updatedAt: generateTimestamp() } and the rule
updatedTaskOf(prevTask, updates, t) ==
  applyCompletedAt(prevTask, updates,
                   Spread(Spread(prevTask, updates), [updatedAt |-> generateTimestamp(t)]),
                   t)

\* updateTask(taskId, updates, stateManager)
updateTask(S, stored, storedSettings, taskId, updates, saveOk, t) ==
  LET tasks == S.state.tasks
      taskIndex == findIndex(tasks, taskId)
      updatedTask == updatedTaskOf(tasks[taskIndex], updates, t)
      validation == validateTask(updatedTask)
      updatedTasks == [tasks EXCEPT ![taskIndex] = updatedTask]
  IN IF taskIndex = 0
     THEN Outcome(setState(S, <<<<"error", "Task not found">>>>, TRUE, t),
                  stored, storedSettings, FALSE, FALSE)
     ELSE IF ~validation.isValid
     THEN Outcome(setState(S, <<<<"error", "Invalid task data">>,
                                <<"formErrors", validation.errors>>>>, TRUE, t),
                  stored, storedSettings, FALSE, FALSE)
     ELSE IF saveOk
     THEN Outcome(calculateStats(
                    setState(S, <<<<"tasks", updatedTasks>>,
                                  <<"success", "Task updated successfully">>,
                                  <<"error", Null>>,
                                  <<"formErrors", EmptyObject>>>>, TRUE, t), t),
                  updatedTasks, storedSettings, TRUE, TRUE)
     ELSE Outcome(saveFailed(S, updatedTasks, "Failed to save task", t),
                  stored, storedSettings, FALSE, TRUE)

\* the not-found check left out
nothingRemoved_Unchecked(tasks, updatedTasks) == FALSE

\* updatedTasks.length === tasks.length: nothing was filtered out
nothingRemoved(tasks, updatedTasks) == Len(updatedTasks) = Len(tasks)

\* deleteTask(taskId, stateManager)
deleteTask(S, stored, storedSettings, taskId, saveOk, t) ==
  LET tasks == S.state.tasks
      updatedTasks == SelectSeq(tasks, LAMBDA task : task.id # taskId)
  IN IF nothingRemoved(tasks, updatedTasks)
     THEN Outcome(setState(S, <<<<"error", "Task not found">>>>, TRUE, t),
                  stored, storedSettings, FALSE, FALSE)
     ELSE IF saveOk
     THEN Outcome(calculateStats(
                    setState(S, <<<<"tasks", updatedTasks>>,
                                  <<"success", "Task deleted successfully">>,
                                  <<"error", Null>>>>, TRUE, t), t),
                  updatedTasks, storedSettings, TRUE, TRUE)
     ELSE Outcome(saveFailed(S, updatedTasks, "Failed to delete task", t),
                  stored, storedSettings, FALSE, TRUE)

\* taskActions.loadTasks(stateManager)
loadTasksAction(S, stored, storedSettings, t) ==
  LET S1 == setState(S, <<<<"isLoading", TRUE>>>>, TRUE, t)
      S2 == setState(S1, <<<<"tasks", stored>>,
                           <<"settings", loadSettings(storedSettings)>>,
                           <<"isLoading", FALSE>>,
                           <<"error", Null>>>>, TRUE, t)
  IN Outcome(calculateStats(S2, t), stored, storedSettings, TRUE, FALSE)

(***************************************************************************)
(* state.js: settingsActions                                               *)
(***************************************************************************)
\* updateSettings(updates, stateManager); wrote tells a write of the tasks key
updateSettings(S, stored, storedSettings, updates, saveOk, t) ==
  LET newSettings == Spread(S.state.settings, updates)
      S1 == setState(S, <<<<"settings", newSettings>>,
                          <<"success", "Settings updated successfully">>>>, TRUE, t)
  IN IF saveOk
     THEN Outcome(IF "durationCap" \in DOMAIN updates
                  THEN updateCapStatus(S1, 0, TRUE, t) ELSE S1,
                  stored, newSettings, TRUE, FALSE)
     ELSE Outcome(setState(S, <<<<"error", "Failed to save settings">>>>, TRUE, t),
                  stored, storedSettings, FALSE, FALSE)

(***************************************************************************)
(* storage.js importData and ui.js handleImportData                        *)
(***************************************************************************)
importRequired == {"id", "title", "dueDate", "duration", "tag"}

\* validateTaskStructure(task): a field of the model has the type the check asks
\* for, so what is left is the presence of the fields and the sign of duration
validateTaskStructure(task) ==
  /\ importRequired \subseteq DOMAIN task
  /\ task.duration >= 0

\* importData(jsonString); a file is [parses, tasks, hasSettings, settings]
importData(file) ==
  IF ~file.parses
  THEN [success |-> FALSE, tasks |-> <<>>, hasSettings |-> FALSE,
        settings |-> EmptyObject, errors |-> 1]
  ELSE LET kept == SelectSeq(file.tasks, validateTaskStructure)
       IN [success |-> TRUE, tasks |-> kept, hasSettings |-> file.hasSettings,
           settings |-> file.settings,
           errors |-> IF Len(kept) < Len(file.tasks) THEN 1 ELSE 0]

\* handleImportData(file): the reader's onload callback
handleImportData(S, stored, storedSettings, file, saveOk, saveSettingsOk, t) ==
  LET result == importData(file)
  IN IF result.success
     THEN Outcome(setState(S, <<<<"tasks", result.tasks>>,
                                <<"settings", IF result.hasSettings THEN result.settings
                                              ELSE S.state.settings>>,
                                <<"success", "Imported tasks successfully">>>>, TRUE, t),
                  IF saveOk THEN result.tasks ELSE stored,
                  IF result.hasSettings /\ saveSettingsOk THEN result.settings
                  ELSE storedSettings,
                  TRUE, TRUE)
     ELSE Outcome(setState(S, <<<<"error", "Import failed">>>>, TRUE, t),
                  stored, storedSettings, FALSE, FALSE)

(***************************************************************************)
(* state.js: StateManager.undo and reset                                   *)
(***************************************************************************)
\* undo() that restores the snapshot and leaves the entry in the history
undo_KeepsEntry(S) ==
  IF Len(S.history) = 0 THEN [S |-> S, result |-> FALSE]
  ELSE LET st == S.history[Len(S.history)].prevState
       IN [S |-> [S EXCEPT !.state = st], result |-> TRUE]

\* undo()
undo(S) ==
  IF Len(S.history) = 0 THEN [S |-> S, result |-> FALSE]
  ELSE LET lastEntry == S.history[Len(S.history)]
           st == lastEntry.prevState
           made == notifyListeners(StateKeys, st, lastEntry.newState)
       IN [S |-> [state |-> st,
                  history |-> SubSeq(S.history, 1, Len(S.history) - 1),
                  calls |-> S.calls \o made,
                  escaped |-> S.escaped \/ Escaped(made)],
           result |-> TRUE]

\* reset()
reset(S) ==
  LET made == notifyListeners(StateKeys, initialState, EmptyObject)
  IN [state |-> initialState,
      history |-> <<>>,
      calls |-> S.calls \o made,
      escaped |-> S.escaped \/ Escaped(made)]

(***************************************************************************)
(* storage.js clearAllData and ui.js handleClearData                       *)
(***************************************************************************)
\* handleClearData(): both storage keys are removed, then the store is reset
handleClearData(S, stored, storedSettings, clearOk, t) ==
  IF clearOk
  THEN Outcome(reset(S), <<>>, EmptyObject, TRUE, FALSE)
  ELSE Outcome(setState(S, <<<<"error", "Failed to clear data">>>>, TRUE, t),
               stored, storedSettings, FALSE, FALSE)

(***************************************************************************)
(* The store with the subscribers of the application, which call back into *)
(* it: app.js setupErrorHandling and handleError, ui.js setupStateListeners.*)
(* depth counts the setState calls on the call stack.  The engine ends a   *)
(* call that would exceed its stack with a RangeError, thrown here where    *)
(* setState is entered; the try of the notifyListeners that made the call   *)
(* catches it.                                                              *)
(***************************************************************************)
\* a callback that calls setState when it is given a value that is not falsy
Reenters(cb) == cb = "handleError"

RECURSIVE setStateIn(_, _, _, _, _)
RECURSIVE notifyListenersIn(_, _, _, _, _)
RECURSIVE CallAllIn(_, _, _, _, _, _)

\* handleError(error), called by the `error` subscriber of setupErrorHandling
handleError(S, t, depth) ==
  setStateIn(S, <<<<"error", "Something went wrong. Please try again or refresh the page.">>,
                  <<"success", Null>>>>, TRUE, t, depth + 1)

\* the callbacks registered for a key, called in order with this.state[key] as it
\* is when each is called
CallAllIn(S, cbs, key, prevState, t, depth) ==
  IF cbs = <<>> THEN S
  ELSE LET cb == Head(cbs)
           value == S.state[key]
           R == IF Reenters(cb) /\ value # Null
                THEN handleError([S EXCEPT !.calls = <<>>], t, depth)
                ELSE [S EXCEPT !.calls = <<>>]
           call == [key |-> key, cb |-> cb, value |-> value, old |-> prevState[key],
                    threw |-> R.escaped, caught |-> R.escaped, depth |-> depth]
       IN CallAllIn([R EXCEPT !.calls = S.calls \o <<call>> \o R.calls,
                              !.escaped = FALSE],
                    Tail(cbs), key, prevState, t, depth)

\* notifyListeners(updates, prevState)
notifyListenersIn(S, keys, prevState, t, depth) ==
  IF keys = <<>> THEN S
  ELSE notifyListenersIn(CallAllIn(S, ListenersOf(Head(keys)), Head(keys), prevState,
                                   t, depth),
                         Tail(keys), prevState, t, depth)

\* setState(updates, saveToHistory) as call number depth of the stack
setStateIn(S, updates, saveToHistory, t, depth) ==
  IF depth > StackLimit THEN [S EXCEPT !.escaped = TRUE]
  ELSE LET prevState == S.state
           new == deepMerge(S.state, updates)
       IN notifyListenersIn(
            [S EXCEPT !.state = new,
                      !.history = IF saveToHistory
                                  THEN addToHistory(S.history, prevState, new, t)
                                  ELSE S.history],
            UpdKeys(updates), prevState, t, depth)

\* undo() with these subscribers; the calls they make start at depth 1
undoIn(S, t) ==
  IF Len(S.history) = 0 THEN [S |-> S, result |-> FALSE]
  ELSE LET lastEntry == S.history[Len(S.history)]
       IN [S |-> notifyListenersIn(
                   [S EXCEPT !.state = lastEntry.prevState,
                             !.history = SubSeq(S.history, 1, Len(S.history) - 1)],
                   StateKeys, lastEntry.newState, t, 0),
           result |-> TRUE]

(***************************************************************************)
(* ui.js: a receiver of getState('tasks') that changes what it received.   *)
(* getState(key) returns this.state[key] itself, and { ...this.state }     *)
(* copies the references of the top-level values: the array the receiver   *)
(* holds is the array of the store and of every snapshot taken since the   *)
(* store last replaced it.                                                  *)
(***************************************************************************)
RECURSIVE InsertByCreatedDesc(_, _)
\* the place a stable sort gives x among sorted, the later createdAt first
InsertByCreatedDesc(sorted, x) ==
  IF sorted = <<>> THEN <<x>>
  ELSE IF Head(sorted).createdAt >= x.createdAt
       THEN <<Head(sorted)>> \o InsertByCreatedDesc(Tail(sorted), x)
       ELSE <<x>> \o sorted

RECURSIVE SortByCreatedDesc(_)
\* tasks.sort((a, b) => new Date(b.createdAt) - new Date(a.createdAt))
SortByCreatedDesc(tasks) ==
  IF tasks = <<>> THEN <<>>
  ELSE InsertByCreatedDesc(SortByCreatedDesc(SubSeq(tasks, 1, Len(tasks) - 1)),
                           tasks[Len(tasks)])

\* Whether a snapshot's array is the array of the store.  addTask is the only
\* action of AliasSpec that replaces the array, each time by a longer one, and a
\* sort keeps the length: two arrays are the same object when they are as long.
SameArray(tasks, current) == Len(tasks) = Len(current)

\* the snapshots after the array they share with the store has been sorted
SortedInPlace(hist, current, sorted) ==
  [i \in 1..Len(hist) |->
     [hist[i] EXCEPT
        !.prevState.tasks = IF SameArray(@, current) THEN sorted ELSE @,
        !.newState.tasks = IF SameArray(@, current) THEN sorted ELSE @]]

(***************************************************************************)
(* app.js initializeSettingsPage: the `change` listener of the time-unit   *)
(* control.  It works on localStorage alone.  A cap is a number of         *)
(* thousandths; the quotient by 60 is cut to a thousandth.                 *)
(***************************************************************************)
MinutesPerHour == 60

\* the durationCap the listener saves
convertedCap(oldSettings, newUnit) ==
  LET oldUnit == oldSettings.timeUnit
      cap == oldSettings.durationCap
  IN IF cap # 0 /\ oldUnit # newUnit
     THEN IF oldUnit = "hours" /\ newUnit = "minutes" THEN cap * MinutesPerHour
          ELSE IF oldUnit = "minutes" /\ newUnit = "hours" THEN cap \div MinutesPerHour
          ELSE cap
     ELSE cap

\* timeUnitSelect.addEventListener('change', ...): what it leaves in storage
timeUnitChanged(storedSettings, newUnit) ==
  LET oldSettings == loadSettings(storedSettings)
  IN Spread(oldSettings, [timeUnit |-> newUnit,
                          durationCap |-> convertedCap(oldSettings, newUnit)])

\* both `change` listeners of the control, the store-backed one of
\* bindSettingsEvents and the one of the settings page, in either order
changeTimeUnit(S, stored, storedSettings, newUnit, storeFirst, t) ==
  IF storeFirst
  THEN LET o == updateSettings(S, stored, storedSettings, [timeUnit |-> newUnit], TRUE, t)
       IN Outcome(o.S, stored, timeUnitChanged(o.settingsStorage, newUnit), TRUE, FALSE)
  ELSE updateSettings(S, stored, timeUnitChanged(storedSettings, newUnit),
                      [timeUnit |-> newUnit], TRUE, t)

(***************************************************************************)
(* validators.js: compileRegex and testRegex.  The patterns of the model   *)
(* are literals, or hold a parenthesis that makes them no pattern at all.  *)
(***************************************************************************)
\* the canonical form the i flag compares characters in
Canonicalize(c) == CASE c = "H" -> "h" [] c = "W" -> "w" [] OTHER -> c

IgnoreCase(flags) == flags \in {"i", "gi"}

RECURSIVE OpenGroups(_, _)
\* a group is closed that was never opened, or is left open at the end
OpenGroups(pattern, depth) ==
  IF pattern = <<>> THEN depth # 0
  ELSE IF Head(pattern) = "(" THEN OpenGroups(Tail(pattern), depth + 1)
  ELSE IF Head(pattern) = ")" THEN depth = 0 \/ OpenGroups(Tail(pattern), depth - 1)
  ELSE OpenGroups(Tail(pattern), depth)

\* new RegExp(pattern, flags) throws a SyntaxError
RegExpThrows(pattern) == OpenGroups(pattern, 0)

\* the compilation left outside the try: the SyntaxError reaches the caller
compileRegex_NoCatch(pattern, flags) ==
  IF Trim(pattern) = <<>>
  THEN [success |-> FALSE, regex |-> Null, error |-> "Empty pattern", threw |-> FALSE]
  ELSE IF RegExpThrows(pattern)
  THEN [success |-> FALSE, regex |-> Null, error |-> "SyntaxError", threw |-> TRUE]
  ELSE [success |-> TRUE, regex |-> [source |-> pattern, flags |-> flags],
        error |-> Null, threw |-> FALSE]

\* compileRegex(pattern, flags); threw: an exception left the function
compileRegex(pattern, flags) ==
  IF Trim(pattern) = <<>>
  THEN [success |-> FALSE, regex |-> Null, error |-> "Empty pattern", threw |-> FALSE]
  ELSE IF RegExpThrows(pattern)
  THEN [success |-> FALSE, regex |-> Null, error |-> "SyntaxError", threw |-> FALSE]
  ELSE [success |-> TRUE, regex |-> [source |-> pattern, flags |-> flags],
        error |-> Null, threw |-> FALSE]

Global(flags) == flags \in {"g", "gi"}

\* the characters a and b are the same to a regex with these flags
SameChar(flags, a, b) ==
  IF IgnoreCase(flags) THEN Canonicalize(a) = Canonicalize(b) ELSE a = b

RECURSIVE RunLength(_, _, _, _)
\* how many times c stands in text from index i on (indices count from 0)
RunLength(text, c, flags, i) ==
  IF i < Len(text) /\ SameChar(flags, text[i + 1], c)
  THEN 1 + RunLength(text, c, flags, i + 1) ELSE 0

RECURSIVE MatchEnds(_, _, _, _)
RECURSIVE StarEnds(_, _, _, _, _)
\* the atoms behind a starred character, tried with k repetitions of it, then
\* with fewer
StarEnds(text, rest, flags, i, k) ==
  IF k < 0 THEN <<>>
  ELSE MatchEnds(text, rest, flags, i + k) \o StarEnds(text, rest, flags, i, k - 1)

\* where a match of the pattern that starts at index i can end, in the order the
\* backtracking matcher finds the ends; a pattern is a sequence of characters,
\* each of which a * may follow
MatchEnds(text, pattern, flags, i) ==
  IF pattern = <<>> THEN <<i>>
  ELSE IF Len(pattern) >= 2 /\ pattern[2] = "*"
  THEN StarEnds(text, Tail(Tail(pattern)), flags, i,
                RunLength(text, pattern[1], flags, i))
  ELSE IF i < Len(text) /\ SameChar(flags, text[i + 1], pattern[1])
  THEN MatchEnds(text, Tail(pattern), flags, i + 1)
  ELSE <<>>

\* the least number of a non-empty set
Least(S) == CHOOSE x \in S : \A y \in S : x <= y

\* regex.exec(text) with regex.lastIndex as given: without the g flag the search
\* starts at 0 and leaves lastIndex alone
exec(text, regex, lastIndex) ==
  LET start == IF Global(regex.flags) THEN lastIndex ELSE 0
      found == {i \in start..Len(text) :
                  MatchEnds(text, regex.source, regex.flags, i) # <<>>}
  IN IF found = {}
     THEN [found |-> FALSE, match |-> <<>>, index |-> 0,
           lastIndex |-> IF Global(regex.flags) THEN 0 ELSE lastIndex]
     ELSE LET index == Least(found)
              end == Head(MatchEnds(text, regex.source, regex.flags, index))
          IN [found |-> TRUE, match |-> SubSeq(text, index + 1, end), index |-> index,
              lastIndex |-> IF Global(regex.flags) THEN end ELSE lastIndex]

\* one pass of the loop of testRegex after a match: the entry pushed, and
\* if (match.index === regex.lastIndex) regex.lastIndex++
pushed(m) == [match |-> m.match, index |-> m.index]

advanced(m) == IF m.index = m.lastIndex THEN m.lastIndex + 1 ELSE m.lastIndex

RECURSIVE execAll(_, _, _)
\* while ((match = regex.exec(text)) !== null) { ... } for a regex with the g
\* flag: the matches pushed from lastIndex on
execAll(text, regex, lastIndex) ==
  LET m == exec(text, regex, lastIndex)
  IN IF ~m.found THEN <<>>
     ELSE <<pushed(m)>> \o execAll(text, regex, advanced(m))

\* testRegex(text, pattern, flags), for the global flags searchTasks passes
testRegex(text, pattern, flags) ==
  LET compilation == compileRegex(pattern, flags)
  IN IF ~compilation.success
     THEN [success |-> FALSE, matches |-> <<>>, error |-> compilation.error]
     ELSE [success |-> TRUE, matches |-> execAll(text, compilation.regex, 0),
           error |-> Null]

\* the regex as String.prototype.replace runs it: from an index on
Scanning(regex) == [regex EXCEPT !.flags = IF IgnoreCase(regex.flags) THEN "gi" ELSE "g"]

RECURSIVE highlightFrom(_, _, _)
\* the text from index i on with every match (the first, without the g flag)
\* wrapped in <mark>
highlightFrom(text, regex, i) ==
  LET m == exec(text, Scanning(regex), i)
      marked == SubSeq(text, i + 1, m.index) \o <<"<mark>">> \o m.match \o <<"</mark>">>
  IN IF ~m.found THEN SubSeq(text, i + 1, Len(text))
     ELSE IF ~Global(regex.flags)
     THEN marked \o SubSeq(text, m.lastIndex + 1, Len(text))
     ELSE IF m.lastIndex > m.index
     THEN marked \o highlightFrom(text, regex, m.lastIndex)
     ELSE IF m.index < Len(text)
     THEN marked \o <<text[m.index + 1]>> \o highlightFrom(text, regex, m.index + 1)
     ELSE marked

\* highlightMatches(text, regex): text.replace(regex, '<mark>$&</mark>')
highlightMatches(text, regex) == highlightFrom(text, regex, 0)

(***************************************************************************)
(* search.js: SearchManager.  Its index is built by initialize and read by *)
(* no search; the cache is the state searchTasks depends on.               *)
(***************************************************************************)
\* SEARCH_CONFIG.maxResults
DefaultMaxResults == 1000

defaultFields == <<"title", "description", "tag">>

\* a destructured option with its default
OptionOr(options, name, default) ==
  IF name \in DOMAIN options THEN options[name] ELSE default

\* getFieldWeight(field)
getFieldWeight(field) ==
  CASE field = "title" -> 3 [] field = "tag" -> 2 [] field = "description" -> 1
    [] OTHER -> 1

RECURSIVE Join(_)
\* fields.join(',')
Join(fields) ==
  IF fields = <<>> THEN <<>>
  ELSE IF Len(fields) = 1 THEN fields
  ELSE <<Head(fields), ",">> \o Join(Tail(fields))

\* `${query}_${caseSensitive}_${fields.join(',')}`
CacheKey(query, caseSensitive, fields) ==
  query \o <<"_", IF caseSensitive THEN "true" ELSE "false", "_">> \o Join(fields)

\* task[field], '' where the task has no such field
FieldValue(task, field) == IF field \in DOMAIN task THEN task[field] ELSE <<>>

RECURSIVE matchesOf(_, _, _, _)
\* the entries the inner fields.forEach pushes for one task
matchesOf(task, fields, query, flags) ==
  IF fields = <<>> THEN <<>>
  ELSE LET field == Head(fields)
           fieldValue == FieldValue(task, field)
           testResult == testRegex(fieldValue, query, flags)
       IN (IF fieldValue # <<>> /\ testResult.success /\ Len(testResult.matches) > 0
           THEN <<[field |-> field, value |-> fieldValue, matches |-> testResult.matches,
                   score |-> Len(testResult.matches) * getFieldWeight(field)]>>
           ELSE <<>>) \o matchesOf(task, Tail(fields), query, flags)

\* new SearchResult(task, matches, score)
SearchResult(task, matches, score, highlightedFields) ==
  [task |-> task, matches |-> matches, score |-> score,
   highlightedFields |-> highlightedFields]

\* the result pushed for a task with matches
resultOf(task, fields, query, regex) ==
  LET matches == matchesOf(task, fields, query, regex.flags)
      shown == {fields[i] : i \in 1..Len(fields)}
  IN SearchResult(task, matches, SumSeq([i \in 1..Len(matches) |-> matches[i].score]),
                  [field \in {f \in shown : FieldValue(task, f) # <<>>} |->
                     highlightMatches(FieldValue(task, field), regex)])

RECURSIVE resultsOf(_, _, _, _)
\* tasks.forEach(task => ...): one result for each task with a match, in order
resultsOf(tasks, fields, query, regex) ==
  IF tasks = <<>> THEN <<>>
  ELSE (IF matchesOf(Head(tasks), fields, query, regex.flags) # <<>>
        THEN <<resultOf(Head(tasks), fields, query, regex)>> ELSE <<>>)
         \o resultsOf(Tail(tasks), fields, query, regex)

RECURSIVE InsertByScore(_, _)
InsertByScore(sorted, result) ==
  IF sorted = <<>> THEN <<result>>
  ELSE IF Head(sorted).score >= result.score
  THEN <<Head(sorted)>> \o InsertByScore(Tail(sorted), result)
  ELSE <<result>> \o sorted

RECURSIVE SortByScore(_)
\* results.sort((a, b) => b.score - a.score): Array.prototype.sort is stable
SortByScore(results) ==
  IF results = <<>> THEN <<>>
  ELSE InsertByScore(SortByScore(SubSeq(results, 1, Len(results) - 1)),
                     results[Len(results)])

\* array.slice(0, end) for end >= 0
Slice(array, end) == SubSeq(array, 1, IF end < Len(array) THEN end ELSE Len(array))

\* what a searchTasks call leaves behind and returns
Answer(cache, results, threw) == [cache |-> cache, results |-> results, threw |-> threw]

\* searchCache.set(cacheKey, limitedResults)
CacheSet(cache, cacheKey, value) ==
  [k \in DOMAIN cache \cup {cacheKey} |-> IF k = cacheKey THEN value ELSE cache[k]]

\* SearchManager.searchTasks(query, tasks, options) on the cache given
searchTasks(cache, query, tasks, options) ==
  LET caseSensitive == OptionOr(options, "caseSensitive", FALSE)
      fields == OptionOr(options, "fields", defaultFields)
      maxResults == OptionOr(options, "maxResults", DefaultMaxResults)
      cacheKey == CacheKey(query, caseSensitive, fields)
      flags == IF caseSensitive THEN "g" ELSE "gi"
      compilation == compileRegex(query, flags)
      limitedResults ==
        Slice(SortByScore(resultsOf(tasks, fields, query, compilation.regex)), maxResults)
  IN IF Trim(query) = <<>>
     THEN Answer(cache, [i \in 1..Len(tasks) |-> SearchResult(tasks[i], <<>>, 0, EmptyObject)],
                 FALSE)
     ELSE IF cacheKey \in DOMAIN cache THEN Answer(cache, cache[cacheKey], FALSE)
     ELSE IF compilation.threw THEN Answer(cache, <<>>, TRUE)
     ELSE IF ~compilation.success THEN Answer(cache, <<>>, FALSE)
     ELSE Answer(CacheSet(cache, cacheKey, limitedResults), limitedResults, FALSE)

\* SearchManager.initialize(tasks): this.searchCache.clear()
initialize(cache, tasks) == EmptyObject

\* the cache once the subscribers called have run: the subscriber that
\* initializeSearchManager registers calls initialize with the new tasks
cacheAfter(calls) ==
  IF \E i \in 1..Len(calls) : calls[i].cb = "initialize"
  THEN initialize(searchCache, state.tasks) ELSE searchCache

(***************************************************************************)
(* search.js: filterTasks and sortTasks.  Instants are counted in half     *)
(* days since 1970-01-01T00:00Z, so that now can fall between midnights.   *)
(***************************************************************************)
HalfDaysPerDay == 2

\* filters[key] is truthy: there, and not ''
Truthy(filters, key) == key \in DOMAIN filters /\ (key = "tag" => filters[key] # <<>>)

\* Math.ceil(a / b) for b > 0
Ceil(a, b) == -((-a) \div b)

\* Math.floor in the place of Math.ceil
daysUntilDue_Floor(dueDate, nowHalf) ==
  (DayNumber(dueDate) * HalfDaysPerDay - nowHalf) \div HalfDaysPerDay

\* Math.ceil((dueDate - now) / (1000 * 60 * 60 * 24))
daysUntilDue(dueDate, nowHalf) ==
  Ceil(DayNumber(dueDate) * HalfDaysPerDay - nowHalf, HalfDaysPerDay)

\* the switch on filters.status: the task is not filtered out
statusKeeps(status, days) ==
  CASE status = "overdue" -> ~(days >= 0)
    [] status = "due-soon" -> ~(days < 0 \/ days > 3)
    [] status = "upcoming" -> ~(days < 4 \/ days > 30)
    [] status = "future" -> ~(days <= 30)
    [] OTHER -> TRUE

\* the callback of tasks.filter in filterTasks
keepsTask(task, filters, nowHalf) ==
  /\ ~(Truthy(filters, "tag") /\ task.tag # filters.tag)
  /\ ~(Truthy(filters, "dateFrom") /\ DayNumber(task.dueDate) < DayNumber(filters.dateFrom))
  /\ ~(Truthy(filters, "dateTo") /\ DayNumber(task.dueDate) > DayNumber(filters.dateTo))
  /\ ~(Truthy(filters, "durationMin") /\ task.duration < filters.durationMin)
  /\ ~(Truthy(filters, "durationMax") /\ task.duration > filters.durationMax)
  /\ Truthy(filters, "status") =>
       statusKeeps(filters.status, daysUntilDue(task.dueDate, nowHalf))

\* filterTasks(tasks, filters) called at the instant nowHalf
filterTasks(tasks, filters, nowHalf) ==
  IF DOMAIN filters = {} THEN tasks
  ELSE SelectSeq(tasks, LAMBDA task : keepsTask(task, filters, nowHalf))

\* the letters in the order a collator ranks them; blanks and punctuation rank
\* before every letter
LowerCase == <<"a", "b", "c", "d", "e", "f", "g", "h", "i", "j", "k", "l", "m",
               "n", "o", "p", "q", "r", "s", "t", "u", "v", "w", "x", "y", "z">>

UpperCase == <<"A", "B", "C", "D", "E", "F", "G", "H", "I", "J", "K", "L", "M",
               "N", "O", "P", "Q", "R", "S", "T", "U", "V", "W", "X", "Y", "Z">>

Symbols == <<" ", "&", "-">>

IndexOf(s, c) == CHOOSE i \in 1..Len(s) : s[i] = c

InSeq(s, c) == \E i \in 1..Len(s) : s[i] = c

\* the primary weight of a character: its place in the alphabet, whatever its case
Primary(c) ==
  IF InSeq(Symbols, c) THEN IndexOf(Symbols, c)
  ELSE Len(Symbols) + (IF InSeq(LowerCase, c) THEN IndexOf(LowerCase, c)
                       ELSE IndexOf(UpperCase, c))

\* the tertiary weight: lower case ranks before upper case
Tertiary(c) == IF InSeq(UpperCase, c) THEN 1 ELSE 0

RECURSIVE CompareWeights(_, _)
\* the comparison of two sequences of weights, as -1, 0 or 1
CompareWeights(a, b) ==
  IF a = <<>> /\ b = <<>> THEN 0
  ELSE IF a = <<>> THEN -1
  ELSE IF b = <<>> THEN 1
  ELSE IF Head(a) < Head(b) THEN -1
  ELSE IF Head(a) > Head(b) THEN 1
  ELSE CompareWeights(Tail(a), Tail(b))

\* a.localeCompare(b): by the letters first, by their case among equal letters
localeCompare(a, b) ==
  LET primary == CompareWeights([i \in 1..Len(a) |-> Primary(a[i])],
                                [i \in 1..Len(b) |-> Primary(b[i])])
  IN IF primary # 0 THEN primary
     ELSE CompareWeights([i \in 1..Len(a) |-> Tertiary(a[i])],
                         [i \in 1..Len(b) |-> Tertiary(b[i])])

UrgentImportant == <<"U", "r", "g", "e", "n", "t", " ", "&",
    " ", "I", "m", "p", "o", "r", "t", "a", "n", "t">>

ImportantNotUrgent ==
  <<"I", "m", "p", "o", "r", "t", "a", "n", "t", " ", 
    "b", "u", "t", " ", "N", "o", "t", " ", "U", "r", "g", "e", "n", "t">>

UrgentNotImportant ==
  <<"U", "r", "g", "e", "n", "t", " ", "b", "u", "t", " ", 
    "N", "o", "t", " ", "I", "m", "p", "o", "r", "t", "a", "n", "t">>

UnmappedPriority == 999

\* priorityOrder[tag] || 0: unmapped tags rank first
priorityOf_UnmappedFirst(tag) ==
  CASE tag = UrgentImportant -> 1
    [] tag = ImportantNotUrgent -> 2
    [] tag = UrgentNotImportant -> 3
    [] OTHER -> 0

\* priorityOrder[tag] || 999
priorityOf(tag) ==
  CASE tag = UrgentImportant -> 1
    [] tag = ImportantNotUrgent -> 2
    [] tag = UrgentNotImportant -> 3
    [] OTHER -> UnmappedPriority

\* the comparator sortTasks passes to sort for sortBy; 0 where it does not sort
compareTasks(sortBy, a, b) ==
  CASE sortBy = "priority" -> priorityOf(a.tag) - priorityOf(b.tag)
    [] sortBy = "title-asc" -> localeCompare(a.title, b.title)
    [] sortBy = "title-desc" -> localeCompare(b.title, a.title)
    [] sortBy = "date-asc" -> DayNumber(a.dueDate) - DayNumber(b.dueDate)
    [] sortBy = "date-desc" -> DayNumber(b.dueDate) - DayNumber(a.dueDate)
    [] sortBy = "duration-asc" -> a.duration - b.duration
    [] sortBy = "duration-desc" -> b.duration - a.duration
    [] sortBy = "tag-asc" -> localeCompare(a.tag, b.tag)
    [] sortBy = "tag-desc" -> localeCompare(b.tag, a.tag)
    [] sortBy = "created-asc" -> a.createdAt - b.createdAt
    [] sortBy = "created-desc" -> b.createdAt - a.createdAt
    [] OTHER -> 0

RECURSIVE InsertByCompare(_, _, _)
InsertByCompare(sorted, task, sortBy) ==
  IF sorted = <<>> THEN <<task>>
  ELSE IF compareTasks(sortBy, Head(sorted), task) <= 0
  THEN <<Head(sorted)>> \o InsertByCompare(Tail(sorted), task, sortBy)
  ELSE <<task>> \o sorted

RECURSIVE SortByCompare(_, _)
\* array.sort(comparator): Array.prototype.sort is stable and sorts in place
SortByCompare(array, sortBy) ==
  IF array = <<>> THEN <<>>
  ELSE InsertByCompare(SortByCompare(SubSeq(array, 1, Len(array) - 1), sortBy),
                       array[Len(array)], sortBy)

\* [...array]: a new array with the same elements
spread(array) == [array |-> array, shared |-> FALSE]

\* sortTasks(tasks, sortBy): the array returned, and the caller's array after the
\* call
sortTasks(tasks, sortBy) ==
  LET sortedTasks == spread(tasks)
      returned == SortByCompare(sortedTasks.array, sortBy)
  IN [returned |-> returned,
      tasks |-> IF sortedTasks.shared THEN returned ELSE tasks]

(***************************************************************************)
(* validators.js on the strings a form field holds: the duration rule.     *)
(* The strings are made of digits, the point and the minus sign.           *)
(***************************************************************************)
Digits == <<"0", "1", "2", "3", "4", "5", "6", "7", "8", "9">>

IsDigit(c) == InSeq(Digits, c)

RECURSIVE DigitPrefix(_)
\* \d* at the start of the text
DigitPrefix(text) ==
  IF text # <<>> /\ IsDigit(Head(text)) THEN <<Head(text)>> \o DigitPrefix(Tail(text))
  ELSE <<>>

\* the text behind its first n characters
Behind(text, n) == SubSeq(text, n + 1, Len(text))

RECURSIVE NumberOf(_)
\* the number a sequence of digits writes
NumberOf(digits) ==
  IF digits = <<>> THEN 0
  ELSE NumberOf(SubSeq(digits, 1, Len(digits) - 1)) * 10
         + IndexOf(Digits, digits[Len(digits)]) - 1

\* parseFloat(text): the longest prefix that is a number, as sign, whole part and
\* the digits behind the point; NaN if there is none
parseFloat(text) ==
  LET negative == text # <<>> /\ Head(text) = "-"
      unsigned == IF negative THEN Tail(text) ELSE text
      whole == DigitPrefix(unsigned)
      rest == Behind(unsigned, Len(whole))
      fraction == IF rest # <<>> /\ Head(rest) = "." THEN DigitPrefix(Tail(rest)) ELSE <<>>
  IN [isNaN |-> whole = <<>> /\ fraction = <<>>, negative |-> negative,
      whole |-> NumberOf(whole), fraction |-> fraction]

\* num > 0
IsPositive(num) == ~num.negative /\ (num.whole > 0 \/ NumberOf(num.fraction) > 0)

\* num <= limit, for a whole limit
AtMost(num, limit) ==
  num.negative \/ num.whole < limit \/ (num.whole = limit /\ NumberOf(num.fraction) = 0)

\* VALIDATION_RULES.duration.test(value) without the upper limit
durationTest_NoMax(value) ==
  LET num == parseFloat(value) IN ~num.isNaN /\ IsPositive(num)

\* VALIDATION_RULES.duration.test(value)
durationTest(value) ==
  LET num == parseFloat(value)
  IN ~num.isNaN /\ IsPositive(num) /\ AtMost(num, MaxDurationHours)

\* VALIDATION_RULES.duration.pattern.test(value): /^(0|[1-9]\d*)(\.\d{1,2})?$/
durationPattern(value) ==
  LET whole == DigitPrefix(value)
      rest == Behind(value, Len(whole))
  IN /\ whole # <<>>
     /\ whole = <<"0">> \/ Head(whole) # "0"
     /\ \/ rest = <<>>
        \/ /\ Head(rest) = "."
           /\ Len(rest) \in {2, 3}
           /\ \A i \in 2..Len(rest) : IsDigit(rest[i])

\* validateField('duration', value).isValid for a string
validateDuration(value) == durationTest(value) /\ durationPattern(value)

(***************************************************************************)
(* validators.js: checkDuplicateWords and extractPatterns.  Their regexes  *)
(* have no g flag: exec searches from index 0 and leaves lastIndex alone.  *)
(***************************************************************************)
\* \b between index i - 1 and index i
Boundary(text, i) ==
  (i > 0 /\ IsWordChar(text[i])) # (i < Len(text) /\ IsWordChar(text[i + 1]))

\* the characters \w+ takes from index i on, and those \s+ takes
WordRun(text, i) ==
  CHOOSE n \in 0..(Len(text) - i) :
    /\ \A j \in 1..n : IsWordChar(text[i + j])
    /\ i + n = Len(text) \/ ~IsWordChar(text[i + n + 1])

SpaceRun(text, i) ==
  CHOOSE n \in 0..(Len(text) - i) :
    /\ \A j \in 1..n : IsSpace(text[i + j])
    /\ i + n = Len(text) \/ ~IsSpace(text[i + n + 1])

\* /\b(\w+)\s+\1\b/ matches at index i with a word of k characters
RepeatAt(text, i, k) ==
  LET s == IF i + k <= Len(text) THEN SpaceRun(text, i + k) ELSE 0
  IN /\ Boundary(text, i)
     /\ k >= 1 /\ k <= WordRun(text, i)
     /\ s >= 1
     /\ i + k + s + k <= Len(text)
     /\ SubSeq(text, i + k + s + 1, i + k + s + k) = SubSeq(text, i + 1, i + k)
     /\ Boundary(text, i + k + s + k)

\* ADVANCED_PATTERNS.duplicateWords.exec(text): the leftmost match, with the
\* longest word that gives one
execDuplicateWords(text) ==
  LET starts == {i \in 0..(Len(text) - 1) : \E k \in 1..Len(text) : RepeatAt(text, i, k)}
  IN IF starts = {} THEN [found |-> FALSE, index |-> 0, word |-> <<>>, match |-> <<>>]
     ELSE LET i == CHOOSE x \in starts : \A y \in starts : x <= y
              k == CHOOSE x \in 1..Len(text) :
                     RepeatAt(text, i, x)
                       /\ \A y \in 1..Len(text) : RepeatAt(text, i, y) => y <= x
          IN [found |-> TRUE, index |-> i, word |-> SubSeq(text, i + 1, i + k),
              match |-> SubSeq(text, i + 1, i + k + SpaceRun(text, i + k) + k)]

\* /^([0-1]?[0-9]|2[0-3]):[0-5][0-9]$/
timeFormat(text) ==
  \E p \in 2..3 :
    /\ Len(text) = p + 2
    /\ text[p] = ":"
    /\ \A j \in (1..(p - 1)) \cup {p + 1, p + 2} : IsDigit(text[j])
    /\ p = 2 \/ text[1] \in {"0", "1"} \/ (text[1] = "2" /\ text[2] \in {"0", "1", "2", "3"})
    /\ text[p + 1] \in {"0", "1", "2", "3", "4", "5"}

\* ADVANCED_PATTERNS.timeFormat.exec(text)
execTimeFormat(text) ==
  IF timeFormat(text) THEN [found |-> TRUE, index |-> 0, word |-> <<>>, match |-> text]
  ELSE [found |-> FALSE, index |-> 0, word |-> <<>>, match |-> <<>>]

\* regex.exec(text) in the loops of checkDuplicateWords and extractPatterns
execPattern(fn, text) ==
  IF fn = "checkDuplicateWords" THEN execDuplicateWords(text) ELSE execTimeFormat(text)

(***************************************************************************)
(* storage.js exportData and importData on the values of a backup file.    *)
(* A primitive value is [type, text, num]; an object is [type, fields].    *)
(***************************************************************************)
JsString(text) == [type |-> "string", text |-> text, num |-> 0]

JsNumber(num) == [type |-> "number", text |-> <<>>, num |-> num]

JsNull == [type |-> "null", text |-> <<>>, num |-> 0]

JsUndefined == [type |-> "undefined", text |-> <<>>, num |-> 0]

JsObject(fields) == [type |-> "object", fields |-> fields]

\* a value that is no object, where an object is expected
JsOther(type) == [type |-> type, fields |-> EmptyObject]

\* typeof value
typeof(value) == IF value.type = "null" THEN "object" ELSE value.type

\* object[key]
Get(object, key) == IF key \in DOMAIN object THEN object[key] ELSE JsUndefined

\* JSON.stringify of an object: a property whose value is undefined is left out
written(value) ==
  IF value.type # "object" THEN value
  ELSE JsObject([key \in {k \in DOMAIN value.fields : value.fields[k].type # "undefined"}
                   |-> value.fields[key]])

\* JSON.stringify of an array: an element that is undefined is written as null
writtenArray(array) ==
  [type |-> "array",
   elements |-> [i \in 1..Len(array.elements) |->
                   IF array.elements[i].type = "undefined" THEN JsOther("null")
                   ELSE written(array.elements[i])]]

\* exportData(tasks, settings) at time t: the text of the backup file, as the
\* value it writes
exportData(tasks, settings, t) ==
  [parses |-> TRUE, type |-> "object", version |-> "1.0",
   exportedAt |-> generateTimestamp(t),
   tasks |-> writtenArray(tasks), settings |-> written(settings)]

importFields == <<"id", "title", "dueDate", "duration", "tag">>

optionalFields == {"description", "createdAt", "updatedAt"}

\* task.hasOwnProperty(field) is not a function: the parsed object has a
\* property of its own with that name
hasOwnPropertyThrows(task) ==
  task.type = "object" /\ "hasOwnProperty" \in DOMAIN task.fields

\* validateTaskStructure(task) that lets a negative duration pass
taskStructure_AnySign(task) ==
  /\ task.type = "object"
  /\ \A i \in 1..Len(importFields) :
       /\ importFields[i] \in DOMAIN task.fields
       /\ task.fields[importFields[i]].type \notin {"null", "undefined"}
  /\ \A key \in {"id", "title", "dueDate", "tag"} : typeof(task.fields[key]) = "string"
  /\ typeof(task.fields.duration) = "number"
  /\ \A key \in optionalFields :
       Get(task.fields, key).type = "undefined" \/ typeof(task.fields[key]) = "string"

\* validateTaskStructure(task), where it returns
taskStructure(task) ==
  /\ task.type = "object"
  /\ \A i \in 1..Len(importFields) :
       /\ importFields[i] \in DOMAIN task.fields
       /\ task.fields[importFields[i]].type \notin {"null", "undefined"}
  /\ \A key \in {"id", "title", "dueDate", "tag"} : typeof(task.fields[key]) = "string"
  /\ typeof(task.fields.duration) = "number" /\ task.fields.duration.num >= 0
  /\ \A key \in optionalFields :
       Get(task.fields, key).type = "undefined" \/ typeof(task.fields[key]) = "string"

\* the result importData returns from its catch block
importFailed(message) ==
  [success |-> FALSE, tasks |-> <<>>, settings |-> JsOther("null"),
   errors |-> <<[message |-> message, count |-> 0]>>]

\* importData(jsonString) on the text of a file: [parses, type, tasks, settings]
importJson(jsonString) ==
  IF ~jsonString.parses THEN importFailed("SyntaxError")
  ELSE IF jsonString.type \notin {"object", "array"} THEN importFailed("Invalid data format")
  ELSE IF /\ jsonString.tasks.type = "array"
          /\ \E i \in 1..Len(jsonString.tasks.elements) :
               hasOwnPropertyThrows(jsonString.tasks.elements[i])
  THEN importFailed("task.hasOwnProperty is not a function")
  ELSE LET isArray == jsonString.tasks.type = "array"
           kept == IF isArray THEN SelectSeq(jsonString.tasks.elements, taskStructure)
                   ELSE <<>>
           invalidTasks == IF isArray THEN Len(jsonString.tasks.elements) - Len(kept)
                           ELSE 0
       IN [success |-> TRUE, tasks |-> kept,
           settings |-> IF jsonString.settings.type = "object" THEN jsonString.settings
                        ELSE JsOther("null"),
           errors |->
             IF isArray
             THEN (IF invalidTasks > 0
                   THEN <<[message |-> "tasks were skipped due to invalid structure",
                           count |-> invalidTasks]>>
                   ELSE <<>>)
             ELSE IF jsonString.tasks.type \in {"string", "number", "object"}
             THEN <<[message |-> "Tasks data is not in the expected format",
                     count |-> 0]>>
             ELSE <<>>]

(***************************************************************************)
(* search.js: SearchManager.debouncedSearch and the timers of the page.    *)
(* Time is counted in units of 100 ms.  A manager is [timers, debounceTimer]*)
(* with timers the set of the pending timeouts.                            *)
(***************************************************************************)
\* SEARCH_CONFIG.debounceDelay, 300 ms
DebounceDelay == 3

\* clearTimeout(id)
clearTimeout(timers, id) == {timer \in timers : timer.id # id}

\* setTimeout(callback, delay) at time clock; the callback is the closure over
\* query, tasks and options
setTimeout(timers, id, closure, delay, clock) ==
  timers \cup {[id |-> id, due |-> clock + delay, closure |-> closure]}

\* debouncedSearch that does not clear the pending timeout
debouncedSearch_NoClear(manager, id, query, tasks, options, clock) ==
  [timers |-> setTimeout(manager.timers, id,
                         [query |-> query, tasks |-> tasks, options |-> options],
                         DebounceDelay, clock),
   debounceTimer |-> id]

\* debouncedSearch(query, tasks, callback, options) at time clock; id is the id
\* setTimeout returns
debouncedSearch(manager, id, query, tasks, options, clock) ==
  [timers |-> setTimeout(clearTimeout(manager.timers, manager.debounceTimer), id,
                         [query |-> query, tasks |-> tasks, options |-> options],
                         DebounceDelay, clock),
   debounceTimer |-> id]

(***************************************************************************)
(* The quiz page: loadQuestions, renderQuestion, onChoiceClick and         *)
(* nextQuestion.  A question is its label; Undefined stands for a question *)
(* that has none.                                                          *)
(***************************************************************************)
\* the labels renderQuestion falls back to
PlaceholderPool ==
  <<"Elephant", "Baobab Tree", "Drum", "Kente Cloth", "Mask", "Giraffe", "Lion", "Zebra">>

ChoiceButtons == 4

MaxDistractors == 3

\* the array without the element at position i
Remove(arr, i) == SubSeq(arr, 1, i - 1) \o SubSeq(arr, i + 1, Len(arr))

RECURSIVE Arrangements(_, _)
\* shuffle(arr).slice(0, n): Fisher-Yates can give every order, so every choice
\* of n positions in every order (all of them if the array is shorter)
Arrangements(arr, n) ==
  IF n = 0 \/ arr = <<>> THEN {<<>>}
  ELSE UNION {{<<arr[i]>> \o rest : rest \in Arrangements(Remove(arr, i), n - 1)} :
              i \in 1..Len(arr)}

\* shuffle(arr)
shuffle(arr) == Arrangements(arr, Len(arr))

\* labels.filter(Boolean) and pool.filter(l => l !== label)
Labelled(labels) == SelectSeq(labels, LAMBDA l : l # Undefined)

Others(pool, label) == SelectSeq(pool, LAMBDA l : l # label)

\* btn.textContent = choices[i] || ''
ButtonTexts(choices) ==
  [i \in 1..ChoiceButtons |->
     IF i <= Len(choices) /\ choices[i] # Undefined THEN choices[i] ELSE ""]

\* "prepare choices" for the question object the closure of renderQuestion
\* holds, whose label is label, with the array questions of that moment
choicesFor(questions, label) ==
  LET labels == Labelled(questions)
      pool == IF Len(labels) >= 4 THEN labels ELSE PlaceholderPool
  IN UNION {shuffle(<<label>> \o distractors) :
              distractors \in Arrangements(Others(pool, label), MaxDistractors)}

\* "prepare choices" of renderQuestion: the arrays choices can be
prepareChoices(questions, index) == choicesFor(questions, questions[index + 1])

\* the page once the choices of question index are on the buttons
Shown(quiz, questions, index, choices) ==
  [quiz EXCEPT !.pc = "shown", !.questions = questions, !.index = index,
               !.texts = ButtonTexts(choices), !.correctLabel = questions[index + 1],
               !.feedback = ""]

\* renderQuestion() for question index: the pages it can lead to; a question
\* without a label waits for the detection first
renderQuestion(quiz, questions, index) ==
  IF questions[index + 1] = Undefined
  THEN {[quiz EXCEPT !.pc = "detecting", !.questions = questions, !.index = index,
                     !.feedback = ""]}
  ELSE {Shown(quiz, questions, index, choices) :
          choices \in prepareChoices(questions, index)}

\* onChoiceClick(btn, correctLabel)
onChoiceClick(quiz, i) ==
  IF quiz.texts[i] = quiz.correctLabel
  THEN [quiz EXCEPT !.pc = "correct", !.feedback = "Correct!"]
  ELSE [quiz EXCEPT !.feedback = "Try Again!"]

(***************************************************************************)
(* The quiz page with its pending work: the fetches of loadQuestions, the  *)
(* detections of renderQuestion and the timeouts of onChoiceClick and      *)
(* nextQuestion run in any order between the clicks.  A page records the   *)
(* array questions under a number (round) that tells one loaded array from *)
(* the next, and in answered whether the question at index has been        *)
(* answered correctly since it became the current one.                     *)
(***************************************************************************)
Reverse(arr) == [i \in 1..Len(arr) |-> arr[Len(arr) + 1 - i]]

\* shuffle(arr).slice(0, n) on the page: two of the orders Fisher-Yates can
\* give, the one that leaves the array as it is and the one that reverses it
shuffleOnPage(arr, n) ==
  {SubSeq(a, 1, IF n < Len(arr) THEN n ELSE Len(arr)) : a \in {arr, Reverse(arr)}}

\* "prepare choices" with these two orders
choicesOnPage(questions, label) ==
  LET labels == Labelled(questions)
      pool == IF Len(labels) >= 4 THEN labels ELSE PlaceholderPool
  IN UNION {shuffleOnPage(<<label>> \o distractors, ChoiceButtons) :
              distractors \in shuffleOnPage(Others(pool, label), MaxDistractors)}

\* the choice buttons once the closure of a question with label label has
\* written the choices on them
withChoices(page, label, choices) ==
  [page EXCEPT !.texts = ButtonTexts(choices), !.judged = label, !.bound = TRUE,
               !.disabled = FALSE]

\* renderQuestion(): the pages it can lead to
renderQuestionOn(page) ==
  IF page.index >= Len(page.questions) THEN {page}
  ELSE LET q == page.questions[page.index + 1]
           cleared == [page EXCEPT !.visible = TRUE, !.feedback = ""]
       IN IF q = Undefined
          THEN {[cleared EXCEPT
                   !.detections = @ \cup {[round |-> page.round, index |-> page.index]}]}
          ELSE {withChoices(cleared, q, choices) :
                  choices \in choicesOnPage(page.questions, q)}

\* the rest of the closure of renderQuestion for the question object q, once
\* its detection has returned detected
afterDetection(page, q, detected) ==
  LET current == q.round = page.round
      questions == IF current /\ detected.label # Undefined
                   THEN [page.questions EXCEPT ![q.index + 1] = detected.label]
                   ELSE page.questions
      label == detected.label
      rest == [page EXCEPT !.questions = questions, !.detections = @ \ {q}]
  IN {withChoices(rest, label, choices) : choices \in choicesOnPage(questions, label)}

\* onChoiceClick(btn, correctLabel) of button i
choiceClicked(page, i) ==
  IF page.texts[i] = page.judged
  THEN [page EXCEPT !.disabled = TRUE, !.feedback = "Correct!", !.nextTimers = @ + 1,
                    !.answered = @ \/ page.judged = page.questions[page.index + 1]]
  ELSE [page EXCEPT !.feedback = "Try Again!"]

\* nextQuestion()
nextQuestion(page) ==
  IF Len(page.questions) = 0 THEN {page}
  ELSE IF page.index < Len(page.questions) - 1
  THEN renderQuestionOn([page EXCEPT !.index = @ + 1, !.answered = FALSE])
  ELSE {[page EXCEPT !.feedback = "Level complete", !.visible = FALSE,
                     !.showTimers = @ + 1]}

\* loadQuestions(count, stage) once the questions have arrived
questionsLoaded(page, questions, stage) ==
  renderQuestionOn([page EXCEPT !.questions = questions, !.round = @ + 1, !.index = 0,
                                !.currentStage = stage, !.answered = FALSE])

RECURSIVE idToNum(_)
\* idToNum(id): the number behind the first q or Q that digits follow
idToNum(id) ==
  IF Len(id) < 2 THEN [isNaN |-> TRUE, value |-> 0]
  ELSE IF Head(id) \in {"q", "Q"} /\ IsDigit(id[2])
  THEN [isNaN |-> FALSE, value |-> NumberOf(DigitPrefix(Tail(id)))]
  ELSE idToNum(Tail(id))

\* const ranges = {1: [1,5], 2: [6,10], 3: [11,15]}
ranges == <<<<1, 5>>, <<6, 10>>, <<11, 15>>>>

\* data.filter(d => { const n = idToNum(d.id); ... }) for the range r
inRange(question, r) ==
  LET n == idToNum(question.id)
  IN ~n.isNaN /\ n.value >= r[1] /\ n.value <= r[2]

\* loadQuestions(count, stage) on the dataset data: what it can leave in
\* questions, index and currentStage, or its failure
loadQuestions(count, stage, data) ==
  IF Len(data) = 0
  THEN {[ok |-> FALSE, questions |-> <<>>, index |-> 0, currentStage |-> 0]}
  ELSE LET r == IF stage \in DOMAIN ranges THEN ranges[stage] ELSE ranges[1]
           pool == SelectSeq(data, LAMBDA d : inRange(d, r))
           least == IF count < Len(data) THEN count ELSE Len(data)
           source == IF Len(pool) >= least THEN pool ELSE data
       IN {[ok |-> TRUE, questions |-> questions, index |-> 0, currentStage |-> stage] :
             questions \in shuffleOnPage(source, count)}

\* showLevelCompletionOptions()
showLevelCompletionOptions(page) ==
  IF page.currentStage < 3
  THEN [page EXCEPT !.options = <<"Play Level Again", "Proceed", "Back to Home">>,
                    !.visible = FALSE, !.feedback = ""]
  ELSE [page EXCEPT !.options = <<"Play Quiz Again", "Back to Home">>,
                    !.visible = FALSE, !.feedback = "All levels complete!"]

\* no call is running and no function is under study
Idle == [pc |-> "idle"]

NoInput == EmptyObject

AuxInit == run = Idle /\ input = NoInput

(***************************************************************************)
(* The inputs the model draws from.                                        *)
(***************************************************************************)
TaskData(title, dueDate, duration, tag) ==
  [title |-> title, dueDate |-> dueDate, duration |-> duration, tag |-> tag,
   description |-> <<>>]

\* form data: two valid tasks (one whose tag is trimmed) and one with a trailing
\* space in the title, an impossible date and a three-decimal duration
TaskInputs ==
  { TaskData(<<"a">>, <<1972, 2, 29>>, 2000, <<"H">>),
    TaskData(<<"b">>, <<1970, 1, 2>>, 2500, <<"W", " ">>),
    TaskData(<<"a", " ">>, <<1970, 2, 30>>, 2555, <<"H">>) }

\* the suffixes Math.random().toString(36).substr(2, 9) yields in generateId
RandomSuffixes == {1, 2}

MissingId == <<0, 0>>

\* the ids a caller can name: those of the collection and one that is not there
KnownIds == {state.tasks[i].id : i \in 1..Len(state.tasks)} \cup {MissingId}

\* patches: the completion checkbox, the edit form, an invalid edit, and patches
\* that carry the fields updateTask manages itself
Patches ==
  { [completed |-> TRUE],
    [completed |-> FALSE],
    [title |-> <<"b">>, duration |-> 3000],
    [title |-> <<>>],
    [completedAt |-> 1],
    [id |-> <<1, 1>>] }

(***************************************************************************)
(* The store's operations as actions.                                      *)
(***************************************************************************)
S0 == Store(state, history)

\* the clock values a handler can read: time never runs backwards
Clock == now..MaxNow

\* a handler that read the clock at t returned: its effects, and what the caller
\* saw (saveOk counts as true when the handler never called saveTasks)
Commit(op, out, args, t) ==
  /\ last.n < MaxOps
  /\ state' = out.S.state
  /\ history' = out.S.history
  /\ storage' = out.storage
  /\ settingsStorage' = out.settingsStorage
  /\ now' = t
  /\ last' = [n |-> last.n + 1, op |-> op, result |-> out.result, wrote |-> out.wrote,
              calls |-> out.S.calls, escaped |-> out.S.escaped,
              args |-> IF "saveOk" \in DOMAIN args
                       THEN [args EXCEPT !.saveOk = args.saveOk \/ ~out.wrote] ELSE args]
  /\ searchCache' = cacheAfter(out.S.calls)
  /\ UNCHANGED <<listeners, aux>>

AddTask ==
  \E t \in Clock, taskData \in TaskInputs, r \in RandomSuffixes, saveOk \in BOOLEAN :
    Commit("addTask",
           addTask(S0, storage, settingsStorage, taskData, generateId(t, r), saveOk, t),
           [taskData |-> taskData, id |-> generateId(t, r), saveOk |-> saveOk], t)

UpdateTask ==
  \E t \in Clock, taskId \in KnownIds, saveOk \in BOOLEAN :
  \E updates \in (IF taskId = MissingId THEN {[completed |-> TRUE]} ELSE Patches) :
    Commit("updateTask",
           updateTask(S0, storage, settingsStorage, taskId, updates, saveOk, t),
           [taskId |-> taskId, updates |-> updates, saveOk |-> saveOk], t)

DeleteTask ==
  \E t \in Clock, taskId \in KnownIds, saveOk \in BOOLEAN :
    Commit("deleteTask",
           deleteTask(S0, storage, settingsStorage, taskId, saveOk, t),
           [taskId |-> taskId, saveOk |-> saveOk], t)

\* a task as exportData writes it and a file names it
FileTask(id, title, dueDate, duration, tag) ==
  [id |-> id, title |-> title, dueDate |-> dueDate, duration |-> duration, tag |-> tag,
   description |-> <<>>, completed |-> FALSE, createdAt |-> 1, updatedAt |-> 1,
   completedAt |-> NoStamp]

\* the files a user can pick: one that is not JSON, an export with one task, a
\* hand-edited file whose task has an empty title and a zero duration and which
\* carries settings, and a file with one task that lacks its tag
ImportFiles ==
  { [parses |-> FALSE, tasks |-> <<>>, hasSettings |-> FALSE, settings |-> EmptyObject],
    [parses |-> TRUE, hasSettings |-> FALSE, settings |-> EmptyObject,
     tasks |-> <<FileTask(<<1, 1>>, <<"a">>, <<1972, 2, 29>>, 2000, <<"H">>)>>],
    [parses |-> TRUE, hasSettings |-> TRUE, settings |-> [durationCap |-> 10000],
     tasks |-> <<FileTask(<<1, 2>>, <<>>, <<1970, 1, 2>>, 0, <<"W">>)>>],
    [parses |-> TRUE, hasSettings |-> FALSE, settings |-> EmptyObject,
     tasks |-> <<[id |-> <<1, 2>>, title |-> <<"b">>, dueDate |-> <<1970, 1, 2>>,
                  duration |-> 2500]>>] }

\* the settings form: a new cap, a new unit
SettingsUpdates == { [durationCap |-> 10000], [timeUnit |-> "minutes"] }

LoadTasks ==
  \E t \in Clock :
    Commit("loadTasks", loadTasksAction(S0, storage, settingsStorage, t), EmptyObject, t)

UpdateSettings ==
  \E t \in Clock, updates \in SettingsUpdates, saveOk \in BOOLEAN :
    Commit("updateSettings",
           updateSettings(S0, storage, settingsStorage, updates, saveOk, t),
           [updates |-> updates], t)

ImportData ==
  \E t \in Clock, file \in ImportFiles, saveOk \in BOOLEAN :
    Commit("importData",
           handleImportData(S0, storage, settingsStorage, file, saveOk, saveOk, t),
           [file |-> file, saveOk |-> saveOk], t)

Undo ==
  \E u \in {undo(S0)} :
    Commit("undo", Outcome(u.S, storage, settingsStorage, u.result, FALSE),
           EmptyObject, now)

ClearData ==
  \E t \in Clock, clearOk \in BOOLEAN :
    Commit("clearData", handleClearData(S0, storage, settingsStorage, clearOk, t),
           [clearOk |-> clearOk], t)

\* the keys and the callbacks of the subscriptions: one callback renders, the
\* other throws
SubscribeKeys == {"error", "success"}
Callbacks == {"render", "thrower"}

\* uiActions.setError, setSuccess and setLoading
UiUpdates ==
  { <<<<"error", "Oops">>, <<"success", Null>>>>,
    <<<<"success", "Saved">>, <<"error", Null>>>>,
    <<<<"isLoading", TRUE>>>> }

\* the application registers its subscriptions while it starts, before the first
\* call of the store
Subscribe ==
  \E key \in SubscribeKeys, cb \in Callbacks :
    /\ last.n = 0
    /\ listeners' = subscribe(listeners, key, cb)
    /\ UNCHANGED <<state, history, storage, settingsStorage, now, searchCache, last, aux>>

Unsubscribe ==
  \E key \in DOMAIN listeners :
  \E i \in 1..Len(listeners[key]) :
    /\ last.n = 0
    /\ listeners' = unsubscribe(listeners, key, listeners[key][i])
    /\ UNCHANGED <<state, history, storage, settingsStorage, now, searchCache, last, aux>>

SetStateCall ==
  \E t \in Clock, updates \in UiUpdates, saveToHistory \in BOOLEAN :
    Commit("setState",
           Outcome(setState(S0, updates, saveToHistory, t), storage, settingsStorage,
                   TRUE, FALSE),
           [updates |-> updates, saveToHistory |-> saveToHistory], t)

\* a call of uiActions while the application's subscribers are registered
AppSetState ==
  \E t \in Clock, updates \in UiUpdates, saveToHistory \in BOOLEAN :
    Commit("setState",
           Outcome(setStateIn(S0, updates, saveToHistory, t, 1), storage, settingsStorage,
                   TRUE, FALSE),
           [updates |-> updates, saveToHistory |-> saveToHistory], t)

AppUndo ==
  \E u \in {undoIn(S0, now)} :
    Commit("undo", Outcome(u.S, storage, settingsStorage, u.result, FALSE),
           EmptyObject, now)

\* the subscriptions of setupStateListeners and, after them, of setupErrorHandling
AppListeners ==
  [error |-> <<"showError", "handleError">>, success |-> <<"showSuccess">>]

\* A call of the store that is not counted against MaxOps: the history is a
\* ring, so the runs of these calls are bounded by the clock alone.
Uncounted(op, S, result, args, t) ==
  /\ state' = S.state
  /\ history' = S.history
  /\ now' = t
  /\ last' = [n |-> 1, op |-> op, result |-> result, wrote |-> FALSE,
              calls |-> S.calls, escaped |-> S.escaped, args |-> args]
  /\ searchCache' = cacheAfter(S.calls)
  /\ UNCHANGED <<listeners, storage, settingsStorage, aux>>

\* uiActions.setLoading(true), recorded in the history or not
SetLoading ==
  \E t \in Clock, saveToHistory \in BOOLEAN :
    Uncounted("setState", setState(S0, <<<<"isLoading", TRUE>>>>, saveToHistory, t), TRUE,
              [saveToHistory |-> saveToHistory,
               wasFull |-> Len(history) = maxHistorySize], t)

UndoAny ==
  \E u \in {undo(S0)} : Uncounted("undo", u.S, u.result, EmptyObject, now)

ResetAny ==
  \E S \in {reset(S0)} : Uncounted("reset", S, TRUE, EmptyObject, now)

\* UIManager.updateRecentTasks(): getState('tasks').sort(...) sorts the array it
\* was given
UpdateRecentTasks ==
  \E sorted \in {SortByCreatedDesc(state.tasks)} :
    /\ last.n < MaxOps
    /\ state' = [state EXCEPT !.tasks = sorted]
    /\ history' = SortedInPlace(history, state.tasks, sorted)
    /\ last' = [n |-> last.n + 1, op |-> "updateRecentTasks", result |-> TRUE,
                wrote |-> FALSE, calls |-> <<>>, escaped |-> FALSE, args |-> EmptyObject]
    /\ UNCHANGED <<listeners, storage, settingsStorage, now, searchCache, aux>>

\* completed durations around the thresholds of a goal of 40 hours, in thousandths
AchievedDurations == {32000, 32100, 36000, 40000, 40100, 44000}

\* taskActions.updateCapStatus(stateManager, currentDuration)
CapStatusCall ==
  \E t \in Clock, achieved \in AchievedDurations :
    Commit("updateCapStatus",
           Outcome(updateCapStatus(S0, achieved, FALSE, t), storage, settingsStorage,
                   TRUE, FALSE),
           [achieved |-> achieved], t)

TimeUnits == {"hours", "minutes"}

\* the user picks a unit in the time-unit control
ChangeTimeUnit ==
  \E t \in Clock, newUnit \in TimeUnits, storeFirst \in BOOLEAN :
    Commit("changeTimeUnit",
           changeTimeUnit(S0, storage, settingsStorage, newUnit, storeFirst, t),
           [unit |-> newUnit, storeFirst |-> storeFirst], t)

\* form data for the search: a task whose tag is H, and a task with h in its
\* title and twice in its description
SearchInputs ==
  { TaskData(<<"a">>, <<1970, 1, 2>>, 2000, <<"H">>),
    [TaskData(<<"h">>, <<1970, 1, 2>>, 2000, <<"W">>) EXCEPT !.description = <<"h", "h">>] }

\* queries: a literal, a pattern that does not compile, and the empty query
Queries == { <<"H">>, <<"(">>, <<>> }

\* the options objects searchTasks is called with
SearchOptions ==
  { EmptyObject, [maxResults |-> 1], [caseSensitive |-> TRUE], [fields |-> <<"tag">>] }

\* the subscription initializeSearchManager registers
SearchListeners == [tasks |-> <<"initialize">>]

\* addTask and deleteTask while the search manager is subscribed to tasks
SearchAddTask ==
  \E taskData \in SearchInputs, r \in {Len(state.tasks) + 1} :
    Commit("addTask",
           addTask(S0, storage, settingsStorage, taskData, generateId(now, r), TRUE, now),
           [taskData |-> taskData, id |-> generateId(now, r), saveOk |-> TRUE], now)

SearchDeleteTask ==
  \E i \in 1..Len(state.tasks) :
    Commit("deleteTask",
           deleteTask(S0, storage, settingsStorage, state.tasks[i].id, TRUE, now),
           [taskId |-> state.tasks[i].id, saveOk |-> TRUE], now)

\* searchManager.initialize(tasks) called directly, as handleSearch does
Initialize ==
  /\ searchCache' = initialize(searchCache, state.tasks)
  /\ UNCHANGED <<state, history, listeners, storage, settingsStorage, now, last, aux>>

\* searchManager.searchTasks(query, tasks, options) on the current collection
SearchTasks ==
  \E query \in Queries, options \in SearchOptions :
  \E out \in {searchTasks(searchCache, query, state.tasks, options)} :
    /\ searchCache' = out.cache
    /\ last' = [last EXCEPT !.op = "searchTasks", !.result = out.results,
                            !.calls = <<>>, !.escaped = out.threw,
                            !.args = [query |-> query, options |-> options]]
    /\ UNCHANGED <<state, history, listeners, storage, settingsStorage, now, aux>>

\* the texts, patterns and flags testRegex is called with: the patterns are a
\* literal, a pattern with zero-width matches, and one that does not compile
MaxText == 2

RECURSIVE TextsOver(_, _)
TextsOver(alphabet, n) ==
  IF n = 0 THEN {<<>>}
  ELSE TextsOver(alphabet, n - 1)
         \cup {Append(t, c) : t \in TextsOver(alphabet, n - 1), c \in alphabet}

Texts == TextsOver({"a", "b"}, MaxText)

Patterns == { <<"a">>, <<"a", "*">>, <<"(">> }

\* 'i' is the default of testRegex
RegexFlags == {"i", "g", "gi"}

\* the matches a run of testRegex collects before the model stops following it
MaxMatches == 4

\* testRegex(text, pattern, flags) up to its loop
TestRegexCall ==
  \E text \in Texts, pattern \in Patterns, flags \in RegexFlags :
  \E compilation \in {compileRegex(pattern, flags)} :
    /\ run.pc \in {"idle", "returned"}
    /\ run' = [pc |-> IF compilation.success THEN "while" ELSE "returned",
               text |-> text, pattern |-> pattern, regex |-> compilation.regex,
               lastIndex |-> 0, matches |-> <<>>,
               result |-> [success |-> FALSE, matches |-> <<>>,
                           error |-> compilation.error]]
    /\ UNCHANGED <<state, history, listeners, storage, settingsStorage, now,
                   searchCache, input, last>>

\* one evaluation of the loop condition of testRegex, and the body or the return
TestRegexLoop ==
  /\ run.pc = "while"
  /\ Len(run.matches) < MaxMatches
  /\ \E m \in {exec(run.text, run.regex, run.lastIndex)} :
    /\ run' = IF m.found
              THEN [run EXCEPT !.matches = Append(run.matches, pushed(m)),
                               !.lastIndex = advanced(m)]
              ELSE [run EXCEPT !.pc = "returned", !.lastIndex = m.lastIndex,
                               !.result = [success |-> TRUE, matches |-> run.matches,
                                           error |-> Null]]
    /\ UNCHANGED <<state, history, listeners, storage, settingsStorage, now,
                   searchCache, input, last>>

\* the tasks filtered: due the day before the call, the day of the call, and 1,
\* 3, 4, 30, 31 and 32 days after it, with two tags and three durations
FilterTasks ==
  << FileTask(<<1, 1>>, <<"a">>, <<1970, 1, 1>>, 1000, <<"H">>),
     FileTask(<<1, 2>>, <<"a">>, <<1970, 1, 2>>, 2000, <<"W">>),
     FileTask(<<1, 3>>, <<"a">>, <<1970, 1, 3>>, 3000, <<"H">>),
     FileTask(<<1, 4>>, <<"a">>, <<1970, 1, 5>>, 1000, <<"W">>),
     FileTask(<<1, 5>>, <<"a">>, <<1970, 1, 6>>, 2000, <<"H">>),
     FileTask(<<1, 6>>, <<"a">>, <<1970, 2, 1>>, 3000, <<"W">>),
     FileTask(<<1, 7>>, <<"a">>, <<1970, 2, 2>>, 1000, <<"H">>),
     FileTask(<<1, 8>>, <<"a">>, <<1970, 2, 3>>, 2000, <<"H">>) >>

\* a filters object: every criterion is left out or has a value, which for the
\* tag can be '' (the values of the other criteria are non-empty strings and
\* positive numbers)
FilterKeys == {"tag", "dateFrom", "dateTo", "durationMin", "durationMax", "status"}

Statuses == {"overdue", "due-soon", "upcoming", "future"}

AllFilters(tag, status) ==
  [tag |-> tag, dateFrom |-> <<1970, 1, 3>>, dateTo |-> <<1970, 2, 1>>,
   durationMin |-> 2000, durationMax |-> 2000, status |-> status]

FilterSets ==
  { [key \in keys |-> AllFilters(tag, status)[key]] :
      keys \in SUBSET FilterKeys, tag \in {<<>>, <<"H">>}, status \in Statuses }

\* the call happens on 1970-01-02, at midnight or at noon
FilterInstants == {2, 3}

FilterInputs == [tasks : {FilterTasks}, filters : FilterSets, nowHalf : FilterInstants]

\* the state after construction, with the arguments drawn for the function studied
InitWith(arguments) ==
  /\ state = initialState
  /\ history = <<>>
  /\ listeners = EmptyObject
  /\ storage = <<>>
  /\ settingsStorage = EmptyObject
  /\ now = 1
  /\ searchCache = EmptyObject
  /\ run = Idle
  /\ input = arguments
  /\ last = [n |-> 0, op |-> "none", result |-> FALSE, wrote |-> FALSE,
             calls |-> <<>>, escaped |-> FALSE, args |-> EmptyObject]

\* the function studied returned result (threw, if escaped)
Applied(op, result, escaped) ==
  /\ last.n = 0
  /\ last' = [last EXCEPT !.n = 1, !.op = op, !.result = result, !.escaped = escaped]
  /\ UNCHANGED <<state, history, listeners, storage, settingsStorage, now, searchCache,
                 aux>>

FilterTasksCall ==
  \E result \in {filterTasks(input.tasks, input.filters, input.nowHalf)} :
    Applied("filterTasks", result, FALSE)

\* the tasks sorted: one of each priority, two of an unmapped tag that tie in
\* every key, and titles that differ in case only
SortTask(id, title, dueDate, duration, tag, createdAt) ==
  [FileTask(id, title, dueDate, duration, tag) EXCEPT !.createdAt = createdAt]

SortPool ==
  { SortTask(<<1, 1>>, <<"b">>, <<1970, 1, 3>>, 2000, UrgentImportant, 2),
    SortTask(<<1, 2>>, <<"a">>, <<1970, 1, 1>>, 3000, <<"H">>, 1),
    SortTask(<<1, 3>>, <<"B">>, <<1970, 1, 2>>, 1000, UrgentNotImportant, 3),
    SortTask(<<1, 4>>, <<"a">>, <<1970, 1, 1>>, 3000, <<"H">>, 1),
    SortTask(<<1, 5>>, <<"a", "b">>, <<1970, 1, 4>>, 2500, ImportantNotUrgent, 4) }

\* the length of the arrays sorted
MaxSorted == 3

\* the arrays of up to n tasks of the pool, none twice
RECURSIVE ArraysOf(_, _)
ArraysOf(pool, n) ==
  IF n = 0 THEN {<<>>}
  ELSE ArraysOf(pool, n - 1)
         \cup {Append(array, task) :
                 array \in {x \in ArraysOf(pool, n - 1) : Len(x) = n - 1},
                 task \in pool}

SortArrays ==
  {array \in ArraysOf(SortPool, MaxSorted) :
     \A i, j \in 1..Len(array) : array[i] = array[j] => i = j}

SortCriteria ==
  {"priority", "title-asc", "title-desc", "date-asc", "date-desc", "duration-asc",
   "duration-desc", "tag-asc", "tag-desc", "created-asc", "created-desc", "newest"}

SortInputs == [tasks : SortArrays, sortBy : SortCriteria]

SortTasksCall ==
  \E result \in {sortTasks(input.tasks, input.sortBy)} :
    Applied("sortTasks", result, FALSE)

\* the strings validateField('duration', ...) is given: the examples of the
\* tests, and every string of up to MaxNumeral characters
MaxNumeral == 4

DurationExamples ==
  { <<"2", ".", "5", "5", "5">>, <<"1", "0", "0", "0", ".", "0", "0", "1">>,
    <<"1", "0", "0", "0", ".", "0">>, <<"1", "0", "0", "0", ".", "0", "1">>,
    <<"1", "0", "0", "1">>, <<"2", ".", "5">> }

DurationTexts == DurationExamples \cup TextsOver({"0", "1", "5", ".", "-"}, MaxNumeral)

DurationInputs == [value : DurationTexts]

ValidateDurationCall ==
  /\ "value" \in DOMAIN input
  /\ \E result \in {validateDuration(input.value)} :
       Applied("validateField", result, FALSE)

\* the strings validateField('tag', ...) is given: every string of up to MaxTag
\* characters over letters, a digit, the space and the hyphen
MaxTag == 3

TagTexts == TextsOver({"a", "H", "1", " ", "-"}, MaxTag)

TagInputs == [field : {"tag"}, value : TagTexts]

ValidateTagCall ==
  /\ "field" \in DOMAIN input
  /\ \E result \in {validateField(input.field, input.value)} :
       Applied("validateField", result, FALSE)

\* the tasks of a backup: complete tasks, and tasks with a field missing, null,
\* undefined, of the wrong type or negative
BackupTask(id, duration) ==
  [id |-> JsString(id), title |-> JsString(<<"H">>), dueDate |-> JsString(<<"1">>),
   duration |-> duration, tag |-> JsString(<<"W">>)]

Without(fields, key) == [k \in DOMAIN fields \ {key} |-> fields[k]]

With(fields, key, value) ==
  [k \in DOMAIN fields \cup {key} |-> IF k = key THEN value ELSE fields[k]]

GoodTask == BackupTask(<<"a">>, JsNumber(2500))

StateTasks ==
  { JsObject(GoodTask),
    JsObject(BackupTask(<<"b">>, JsNumber(0))),
    JsObject(With(GoodTask, "description", JsString(<<"a">>))),
    JsObject(With(GoodTask, "description", JsUndefined)),
    JsObject(With(GoodTask, "completed", JsNull)),
    JsObject(Without(GoodTask, "id")),
    JsObject(Without(GoodTask, "tag")),
    JsObject(With(GoodTask, "title", JsNull)),
    JsObject(With(GoodTask, "dueDate", JsUndefined)),
    JsObject(With(GoodTask, "duration", JsString(<<"2">>))),
    JsObject(BackupTask(<<"a">>, JsNumber(-1000))),
    JsObject(With(GoodTask, "createdAt", JsNumber(1))) }

MaxExported == 2

StateSettings ==
  { JsObject([timeUnit |-> JsString(<<"H">>)]),
    JsObject([timeUnit |-> JsString(<<"H">>), durationCap |-> JsNull]),
    JsObject([timeUnit |-> JsUndefined]) }

ExportInputs ==
  [tasks : {[type |-> "array", elements |-> a] : a \in ArraysOf(StateTasks, MaxExported)},
   settings : StateSettings]

\* exportData(tasks, settings): the text goes to the file
ExportDataCall ==
  /\ run = Idle
  /\ "settings" \in DOMAIN input
  /\ run' = [pc |-> "exported", jsonString |-> exportData(input.tasks, input.settings, now)]
  /\ UNCHANGED <<state, history, listeners, storage, settingsStorage, now, searchCache,
                 input, last>>

\* importData(jsonString) of the text exported
ImportExportedCall ==
  /\ run.pc = "exported"
  /\ last.n = 0
  /\ last' = [last EXCEPT !.n = 1, !.op = "importData",
                          !.result = importJson(run.jsonString)]
  /\ UNCHANGED <<state, history, listeners, storage, settingsStorage, now, searchCache,
                 aux>>

\* the files importData is given: text that is no JSON, JSON that is no object,
\* and objects whose tasks are absent, null, no array, or an array of up to
\* MaxImported elements
MaxImported == 2

FileElements ==
  { JsObject(GoodTask),
    JsObject(BackupTask(<<"b">>, JsNumber(0))),
    JsObject(Without(GoodTask, "id")),
    JsObject(With(GoodTask, "duration", JsString(<<"2">>))),
    JsObject(BackupTask(<<"a">>, JsNumber(-1000))),
    JsObject(With(GoodTask, "hasOwnProperty", JsNumber(1))),
    JsOther("null") }

FileTasks ==
  {[type |-> "array", elements |-> a] : a \in ArraysOf(FileElements, MaxImported)}
    \cup {JsOther("undefined"), JsOther("null"), JsOther("string"), JsOther("object")}

FileSettings ==
  {JsObject([timeUnit |-> JsString(<<"H">>)]), JsOther("undefined"), JsOther("string")}

JsonTexts ==
  [parses : {TRUE}, type : {"object"}, tasks : FileTasks, settings : FileSettings]
    \cup [parses : {TRUE}, type : {"null", "number", "string", "array"},
          tasks : {JsOther("undefined")}, settings : {JsOther("undefined")}]
    \cup [parses : {FALSE}, type : {"undefined"},
          tasks : {JsOther("undefined")}, settings : {JsOther("undefined")}]

ImportInputs == [jsonString : JsonTexts]

\* importData(jsonString)
ImportDataCall ==
  /\ "jsonString" \in DOMAIN input
  /\ \E result \in {importJson(input.jsonString)} :
       Applied("importData", result, FALSE)

\* debouncedSearch called up to MaxCalls times until time MaxClock on a
\* collection of two tasks, with two queries that give different results
MaxCalls == 3

MaxClock == 4

DebounceTasks ==
  << FileTask(<<1, 1>>, <<"a">>, <<1970, 1, 2>>, 2000, <<"H">>),
     FileTask(<<1, 2>>, <<"h">>, <<1970, 1, 3>>, 1000, <<"W">>) >>

DebounceQueries == { <<"H">>, <<"a">> }

\* the caches the manager can hold after searches of these queries
AfterSearch(caches) ==
  caches \cup {searchTasks(cache, query, DebounceTasks, EmptyObject).cache :
                 cache \in caches, query \in DebounceQueries}

DebounceCaches == AfterSearch(AfterSearch({EmptyObject}))

\* this.searchTasks(query, tasks, options) of the callback, computed once for
\* each cache and query of these calls
SearchTable ==
  [cache \in DebounceCaches, query \in DebounceQueries |->
     searchTasks(cache, query, DebounceTasks, EmptyObject)]

\* a timeout whose time has come and that has not run yet
Due(timers, clock) == {timer \in timers : timer.due <= clock}

\* debouncedSearch(query, tasks, callback): timeouts that are due run first
DebouncedSearchCall ==
  /\ run.pc = "debounce"
  /\ Len(run.calls) < MaxCalls
  /\ run.clock <= MaxClock
  /\ Due(run.timers, run.clock) = {}
  /\ \E query \in DebounceQueries :
     \E manager \in {debouncedSearch(run, Len(run.calls) + 1, query, DebounceTasks,
                                     EmptyObject, run.clock)} :
       run' = [run EXCEPT !.timers = manager.timers,
                          !.debounceTimer = manager.debounceTimer,
                          !.calls = Append(@, [at |-> run.clock, query |-> query])]
  /\ UNCHANGED <<state, history, listeners, storage, settingsStorage, now, searchCache,
                 input, last>>

\* a timeout runs its callback: searchTasks, then callback(results)
TimerFires ==
  /\ run.pc = "debounce"
  /\ \E timer \in Due(run.timers, run.clock) :
     \E out \in {SearchTable[searchCache, timer.closure.query]} :
       /\ searchCache' = out.cache
       /\ run' = [run EXCEPT !.timers = @ \ {timer},
                             !.delivered = Append(@, [at |-> run.clock,
                                                      results |-> out.results])]
  /\ UNCHANGED <<state, history, listeners, storage, settingsStorage, now, input, last>>

\* 100 ms pass; a timeout that is due runs before time goes on
Tick ==
  /\ run.pc = "debounce"
  /\ Due(run.timers, run.clock) = {}
  /\ run.clock < MaxClock \/ run.timers # {}
  /\ run' = [run EXCEPT !.clock = @ + 1]
  /\ UNCHANGED <<state, history, listeners, storage, settingsStorage, now, searchCache,
                 input, last>>

\* the rounds a level can load: a single question with a label or without, and
\* rounds with four labels: all different, one twice, and with a question that
\* has no label
QuizRounds ==
  { <<"Lion">>, <<Undefined>>,
    <<"Lion", "Zebra", "Drum", "Mask">>,
    <<"Lion", "Zebra", "Drum", "Mask", "Mask">>,
    <<"Lion", "Zebra", "Drum", "Mask", Undefined>> }

\* what the detection gives: null, an object with a null label, a failure, or
\* an object with a label
Detections ==
  { [kind |-> "null", label |-> Undefined], [kind |-> "null label", label |-> Undefined],
    [kind |-> "fails", label |-> Undefined], [kind |-> "label", label |-> "Drum"] }

\* loadQuestions(count, stage): the questions arrive and the first is rendered
LoadQuestions ==
  /\ run.pc = "loading"
  /\ \E questions \in QuizRounds :
     \E quiz \in renderQuestion(run, questions, 0) : run' = quiz
  /\ UNCHANGED <<state, history, listeners, storage, settingsStorage, now, searchCache,
                 input, last>>

\* the detection of renderQuestion returns or fails, and the choices are prepared
DetectionReturns ==
  /\ run.pc = "detecting"
  /\ \E detected \in Detections :
     \E questions \in {IF detected.label # Undefined
                       THEN [run.questions EXCEPT ![run.index + 1] = detected.label]
                       ELSE run.questions} :
     \E choices \in prepareChoices(questions, run.index) :
       run' = Shown(run, questions, run.index, choices)
  /\ UNCHANGED <<state, history, listeners, storage, settingsStorage, now, searchCache,
                 input, last>>

\* a click on one of the choice buttons
ChoiceClick ==
  /\ run.pc = "shown"
  /\ \E i \in 1..ChoiceButtons : run' = onChoiceClick(run, i)
  /\ UNCHANGED <<state, history, listeners, storage, settingsStorage, now, searchCache,
                 input, last>>

\* nextQuestion(), 1500 ms after a correct answer
NextQuestion ==
  /\ run.pc = "correct"
  /\ IF run.index < Len(run.questions) - 1
     THEN \E quiz \in renderQuestion(run, run.questions, run.index + 1) : run' = quiz
     ELSE run' = [run EXCEPT !.pc = "complete", !.feedback = "Level complete"]
  /\ UNCHANGED <<state, history, listeners, storage, settingsStorage, now, searchCache,
                 input, last>>

\* the pending timeouts of one kind and the pending fetches a page may hold
MaxTimers == 2

MaxLoads == 2

\* the arrays questions loaded while the page is open
MaxRounds == 5

\* the rounds a fetch of the questions may deliver after the shuffle
PageRounds == { <<Undefined, "Lion">>, <<"Lion", "Zebra">> }

\* loadQuestions(count, stage) up to its first await
loadStarted(page, stage) ==
  [page EXCEPT !.options = <<>>, !.loads = Append(@, stage)]

OnPage == run.pc = "page"

\* a click on the level button that is displayed
LevelButtonClick ==
  /\ OnPage
  /\ Len(run.loads) < MaxLoads
  /\ run.round + Len(run.loads) < MaxRounds
  /\ run' = loadStarted(run, run.activeLevel)
  /\ UNCHANGED <<state, history, listeners, storage, settingsStorage, now, searchCache,
                 input, last>>

\* the questions of a pending loadQuestions arrive
QuestionsArrive ==
  /\ OnPage
  /\ \E k \in 1..Len(run.loads) : \E questions \in PageRounds :
     \E page \in questionsLoaded([run EXCEPT !.loads = Remove(@, k),
                                             !.activeLevel = run.loads[k]],
                                  questions, run.loads[k]) :
       run' = page
  /\ UNCHANGED <<state, history, listeners, storage, settingsStorage, now, searchCache,
                 input, last>>

\* a pending loadQuestions finds no questions
QuestionsFail ==
  /\ OnPage
  /\ \E k \in 1..Len(run.loads) :
       run' = [run EXCEPT !.loads = Remove(@, k),
                          !.feedback = "Could not load quiz questions.",
                          !.disabled = TRUE]
  /\ UNCHANGED <<state, history, listeners, storage, settingsStorage, now, searchCache,
                 input, last>>

\* a pending detection of renderQuestion returns or fails
DetectionArrives ==
  /\ OnPage
  /\ \E q \in run.detections : \E detected \in Detections :
     \E page \in afterDetection(run, q, detected) : run' = page
  /\ UNCHANGED <<state, history, listeners, storage, settingsStorage, now, searchCache,
                 input, last>>

\* a click on a choice button
AnswerClick ==
  /\ OnPage
  /\ run.visible /\ run.bound /\ ~run.disabled
  /\ run.nextTimers < MaxTimers
  /\ \E i \in 1..ChoiceButtons : run' = choiceClicked(run, i)
  /\ UNCHANGED <<state, history, listeners, storage, settingsStorage, now, searchCache,
                 input, last>>

\* a timeout of onChoiceClick expires, 1500 ms after a correct answer
NextQuestionTimer ==
  /\ OnPage
  /\ run.nextTimers > 0
  /\ run.showTimers < MaxTimers
  /\ \E page \in nextQuestion([run EXCEPT !.nextTimers = @ - 1]) : run' = page
  /\ UNCHANGED <<state, history, listeners, storage, settingsStorage, now, searchCache,
                 input, last>>

\* the onclick of the completion option called name
optionClicked(page, name) ==
  CASE name = "Play Level Again" -> loadStarted(page, page.currentStage)
    [] name = "Proceed" ->
         loadStarted([page EXCEPT !.currentStage = @ + 1], page.currentStage + 1)
    [] name = "Play Quiz Again" -> loadStarted([page EXCEPT !.currentStage = 1], 1)
    [] OTHER -> [page EXCEPT !.pc = "left"]

\* the timeout of nextQuestion expires, 2000 ms after the level was completed
CompletionTimer ==
  /\ OnPage
  /\ run.showTimers > 0
  /\ run' = showLevelCompletionOptions([run EXCEPT !.showTimers = @ - 1])
  /\ UNCHANGED <<state, history, listeners, storage, settingsStorage, now, searchCache,
                 input, last>>

\* a click on one of the completion options on display
OptionClick ==
  /\ OnPage
  /\ \E k \in 1..Len(run.options) :
       /\ run.options[k] = "Back to Home"
          \/ (Len(run.loads) < MaxLoads /\ run.round + Len(run.loads) < MaxRounds)
       /\ run' = optionClicked(run, run.options[k])
  /\ UNCHANGED <<state, history, listeners, storage, settingsStorage, now, searchCache,
                 input, last>>

\* the questions the dataset may hold, in the order of the file
MaxDataset == 7

Dataset ==
  << <<"q", "1">>, <<"q", "2">>, <<"q", "6">>, <<"q", "1", "1">>, <<"q", "3">>,
     <<"q", "4">>, <<"q", "5">>, <<"q", "1", "0">>, <<"Q", "7">>, <<"q", "1", "5">> >>

RECURSIVE Selections(_)
\* the datasets made of some of the questions, in their order
Selections(ids) ==
  IF ids = <<>> THEN {<<>>}
  ELSE LET rest == Selections(Tail(ids))
       IN rest \cup {<<[id |-> Head(ids)]>> \o data : data \in rest}

LoadInputs ==
  [count : {5}, stage : 1..3, data : Selections(SubSeq(Dataset, 1, MaxDataset))]

LoadQuestionsCall ==
  \E result \in loadQuestions(input.count, input.stage, input.data) :
    Applied("loadQuestions", result, FALSE)

\* the messages set and the seconds that pass while the page is watched
MaxMessages == 3

MaxSeconds == 8

\* setTimeout(..., 5000) of showError and setTimeout(..., 3000) of showSuccess,
\* in seconds
ErrorHideDelay == 5

SuccessHideDelay == 3

\* the `error` and `success` subscribers of setupStateListeners, called with
\* value at second clock: the timeouts pending afterwards
showMessage(timers, value, delay, clock) ==
  IF value # Null THEN timers \cup {[due |-> clock + delay]} ELSE timers

\* the store and the timeouts after setState(updates) with these subscribers
messagesSet(updates, clock) ==
  LET S == setState(S0, updates, TRUE, now)
  IN [S |-> S,
      timers |-> showMessage(showMessage(run.timers, S.state.error, ErrorHideDelay, clock),
                             S.state.success, SuccessHideDelay, clock)]

\* uiActions.setError(error)
SetError ==
  /\ run.pc = "messages"
  /\ run.shown < MaxMessages
  /\ Due(run.timers, run.clock) = {}
  /\ \E out \in {messagesSet(<<<<"error", "Oops">>, <<"success", Null>>>>, run.clock)} :
       /\ state' = out.S.state
       /\ history' = out.S.history
       /\ run' = [run EXCEPT !.timers = out.timers, !.shown = @ + 1,
                             !.errorAt = run.clock]
  /\ UNCHANGED <<listeners, storage, settingsStorage, now, searchCache, input, last>>

\* uiActions.setSuccess(success)
SetSuccess ==
  /\ run.pc = "messages"
  /\ run.shown < MaxMessages
  /\ Due(run.timers, run.clock) = {}
  /\ \E out \in {messagesSet(<<<<"success", "Saved">>, <<"error", Null>>>>, run.clock)} :
       /\ state' = out.S.state
       /\ history' = out.S.history
       /\ run' = [run EXCEPT !.timers = out.timers, !.shown = @ + 1,
                             !.successAt = run.clock]
  /\ UNCHANGED <<listeners, storage, settingsStorage, now, searchCache, input, last>>

\* a timeout of showError or showSuccess expires: uiActions.clearMessages
HideTimerFires ==
  /\ run.pc = "messages"
  /\ \E timer \in Due(run.timers, run.clock) :
     \E out \in {messagesSet(<<<<"error", Null>>, <<"success", Null>>>>, run.clock)} :
       /\ state' = out.S.state
       /\ history' = out.S.history
       /\ run' = [run EXCEPT !.timers = out.timers \ {timer}]
  /\ UNCHANGED <<listeners, storage, settingsStorage, now, searchCache, input, last>>

\* a second passes; a timeout that is due runs before time goes on
SecondPasses ==
  /\ run.pc = "messages"
  /\ Due(run.timers, run.clock) = {}
  /\ run.clock < MaxSeconds \/ run.timers # {}
  /\ run' = [run EXCEPT !.clock = @ + 1]
  /\ UNCHANGED <<state, history, listeners, storage, settingsStorage, now, searchCache,
                 input, last>>

\* the tasks in the store when the tag filter is used
MaxListed == 3

ListedPool == {FilterTasks[1], FilterTasks[2], FilterTasks[4]}

\* the options of the tag filter: every tag, and the tags of the tasks
TagOptions == {<<>>, <<"H">>, <<"W">>}

TagFilterInputs == [tasks : ArraysOf(ListedPool, MaxListed), nowHalf : {2}]

\* handleFilter(tag): activeFilters after setState and the tasks renderTasks
\* passes on to be shown (there are no search results)
handleFilter(activeFilters, tag, tasks, nowHalf) ==
  LET filters == IF tag # <<>> THEN [tag |-> tag] ELSE EmptyObject
      merged == deepMerge([activeFilters |-> activeFilters],
                          <<<<"activeFilters", filters>>>>).activeFilters
  IN [activeFilters |-> merged, filteredTasks |-> filterTasks(tasks, merged, nowHalf)]

\* the user picks an option of the tag filter
HandleFilter ==
  /\ run.pc = "filter"
  /\ \E tag \in TagOptions :
     \E out \in {handleFilter(run.activeFilters, tag, input.tasks, input.nowHalf)} :
       run' = [run EXCEPT !.activeFilters = out.activeFilters,
                          !.filteredTasks = out.filteredTasks,
                          !.tag = tag, !.used = TRUE]
  /\ UNCHANGED <<state, history, listeners, storage, settingsStorage, now, searchCache,
                 input, last>>

\* the number of hundredths a numeral with at most two decimals writes
Hundredths(num) ==
  num.whole * 100
    + (IF Len(num.fraction) = 0 THEN 0
       ELSE IF Len(num.fraction) = 1 THEN NumberOf(num.fraction) * 10
       ELSE NumberOf(SubSeq(num.fraction, 1, 2)))

\* duration / 60 for a duration of k hundredths of a minute, in thousandths of
\* an hour.  A quotient that has more than three decimals cannot be written on
\* that scale: it is given as its first two decimals followed by a 1, which is,
\* like the quotient, positive, far below the limit and not a number of two
\* decimals.  The division is taken to be exact.
minutesToHours(k) ==
  IF k % (MinutesPerHour \div 10) = 0 THEN k \div (MinutesPerHour \div 10)
  ELSE 10 * (k \div MinutesPerHour) + 1

\* handleFormSubmit() for a new task whose other fields are valid: the form is
\* validated, the duration converted, and the payload handed to addTask
handleFormSubmit(S, stored, storedSettings, formData, id, t) ==
  IF ~validateDuration(formData.duration)
  THEN Outcome(S, stored, storedSettings, FALSE, FALSE)
  ELSE LET timeUnit == loadSettings(storedSettings).timeUnit
           entered == Hundredths(parseFloat(formData.duration))
           duration == IF timeUnit = "minutes" THEN minutesToHours(entered)
                       ELSE entered * 10
       IN addTask(S, stored, storedSettings,
                  TaskData(formData.title, formData.date, duration, formData.tag),
                  id, TRUE, t)

FormInputs ==
  [title : {<<"a">>}, date : {<<1970, 1, 2>>}, duration : DurationTexts, tag : {<<"H">>},
   timeUnit : TimeUnits]

\* the task form is submitted
HandleFormSubmit ==
  /\ "timeUnit" \in DOMAIN input
  /\ \E t \in Clock :
       Commit("handleFormSubmit",
              handleFormSubmit(S0, storage, settingsStorage, input, generateId(t, 1), t),
              EmptyObject, t)

\* the texts checkDuplicateWords and extractPatterns are given
MaxScanned == 4

ScannedTexts == TextsOver({"a", " ", "1", ":"}, MaxScanned)

\* the pattern types extractPatterns is asked for: one it knows and one it does
\* not
PatternTypes == {"time", "date"}

\* checkDuplicateWords(text) up to its loop
CheckDuplicateWordsCall ==
  \E text \in ScannedTexts :
    /\ run.pc \in {"idle", "returned"}
    /\ run' = [pc |-> "while", fn |-> "checkDuplicateWords", text |-> text,
               matches |-> <<>>, hasDuplicates |-> FALSE]
    /\ UNCHANGED <<state, history, listeners, storage, settingsStorage, now,
                   searchCache, input, last>>

\* extractPatterns(text, patternType) up to its loop, or its return for a type
\* that has no pattern
ExtractPatternsCall ==
  \E text \in ScannedTexts, patternType \in PatternTypes :
    /\ run.pc \in {"idle", "returned"}
    /\ run' = [pc |-> IF patternType = "time" THEN "while" ELSE "returned",
               fn |-> "extractPatterns", text |-> text,
               matches |-> <<>>, hasDuplicates |-> FALSE]
    /\ UNCHANGED <<state, history, listeners, storage, settingsStorage, now,
                   searchCache, input, last>>

\* one evaluation of the loop condition of either function, and the body or the
\* return
PatternLoop ==
  /\ run.pc = "while"
  /\ "fn" \in DOMAIN run
  /\ Len(run.matches) < MaxMatches
  /\ \E m \in {execPattern(run.fn, run.text)} :
    /\ run' = IF m.found
              THEN [run EXCEPT !.matches = Append(run.matches, m)]
              ELSE [run EXCEPT !.pc = "returned",
                               !.hasDuplicates = Len(run.matches) > 0]
    /\ UNCHANGED <<state, history, listeners, storage, settingsStorage, now,
                   searchCache, input, last>>

Init ==
  /\ state = initialState
  /\ history = <<>>
  /\ listeners = EmptyObject
  /\ storage = <<>>
  /\ settingsStorage = EmptyObject
  /\ now = 1
  /\ searchCache = EmptyObject
  /\ AuxInit
  /\ last = [n |-> 0, op |-> "none", result |-> FALSE, wrote |-> FALSE,
             calls |-> <<>>, escaped |-> FALSE, args |-> EmptyObject]

\* the task actions alone: any sequence of addTask, updateTask and deleteTask
TaskNext == AddTask \/ UpdateTask \/ DeleteTask

TaskSpec == Init /\ [][TaskNext]_vars

\* the store as the application drives it
Next ==
  \/ AddTask
  \/ UpdateTask
  \/ DeleteTask
  \/ LoadTasks
  \/ UpdateSettings
  \/ ImportData
  \/ Undo
  \/ ClearData

Spec == Init /\ [][Next]_vars

\* the store and its subscribers
NotifyNext == Subscribe \/ Unsubscribe \/ SetStateCall \/ Undo \/ ClearData

NotifySpec == Init /\ [][NotifyNext]_vars

\* the store once the application has initialized
AppInit ==
  /\ state = initialState
  /\ history = <<>>
  /\ listeners = AppListeners
  /\ storage = <<>>
  /\ settingsStorage = EmptyObject
  /\ now = 1
  /\ searchCache = EmptyObject
  /\ AuxInit
  /\ last = [n |-> 0, op |-> "none", result |-> FALSE, wrote |-> FALSE,
             calls |-> <<>>, escaped |-> FALSE, args |-> EmptyObject]

ReentryNext == AppSetState \/ AppUndo

ReentrySpec == AppInit /\ [][ReentryNext]_vars

\* the history under any number of setState, undo and reset calls
HistoryNext == SetLoading \/ UndoAny \/ ResetAny

HistorySpec == Init /\ [][HistoryNext]_vars

\* task additions and a receiver of the collection
AliasNext == AddTask \/ UpdateRecentTasks

AliasSpec == Init /\ [][AliasNext]_vars

\* the goal and the duration achieved against it
CapNext == CapStatusCall \/ UpdateSettings

CapSpec == Init /\ [][CapNext]_vars

\* the settings: loaded, edited in the form, and the unit changed
UnitNext == LoadTasks \/ UpdateSettings \/ ChangeTimeUnit

UnitSpec == Init /\ [][UnitNext]_vars

\* the search manager of the running application: tasks are added and deleted,
\* every change reaches initialize through the subscription, and searches run
SearchInit ==
  /\ state = initialState
  /\ history = <<>>
  /\ listeners = SearchListeners
  /\ storage = <<>>
  /\ settingsStorage = EmptyObject
  /\ now = 1
  /\ searchCache = EmptyObject
  /\ AuxInit
  /\ last = [n |-> 0, op |-> "none", result |-> FALSE, wrote |-> FALSE,
             calls |-> <<>>, escaped |-> FALSE, args |-> EmptyObject]

SearchNext == SearchAddTask \/ SearchDeleteTask \/ Initialize \/ SearchTasks

SearchSpec == SearchInit /\ [][SearchNext]_vars

\* calls of testRegex, followed through the passes of its loop
RegexNext == TestRegexCall \/ TestRegexLoop

RegexSpec == Init /\ [][RegexNext]_vars

\* filterTasks applied to the arguments drawn
FilterInit == \E arguments \in FilterInputs : InitWith(arguments)

FilterNext == FilterTasksCall

FilterSpec == FilterInit /\ [][FilterNext]_vars

\* sortTasks applied to the arguments drawn
SortInit == \E arguments \in SortInputs : InitWith(arguments)

SortNext == SortTasksCall

SortSpec == SortInit /\ [][SortNext]_vars

\* validateField('duration', value) applied to the strings drawn
DurationInit == \E arguments \in DurationInputs : InitWith(arguments)

DurationNext == ValidateDurationCall

DurationSpec == DurationInit /\ [][DurationNext]_vars

\* validateField('tag', value) applied to the strings drawn
TagInit == \E arguments \in TagInputs : InitWith(arguments)

TagNext == ValidateTagCall

TagSpec == TagInit /\ [][TagNext]_vars

\* a backup exported from the tasks and settings drawn and imported again
ExportInit == \E arguments \in ExportInputs : InitWith(arguments)

ExportNext == ExportDataCall \/ ImportExportedCall

ExportSpec == ExportInit /\ [][ExportNext]_vars

\* importData applied to the files drawn
ImportInit == \E arguments \in ImportInputs : InitWith(arguments)

ImportNext == ImportDataCall

ImportSpec == ImportInit /\ [][ImportNext]_vars

\* a search manager on which debouncedSearch is called as time passes; the
\* event loop runs the timeouts that are due and time goes on
DebounceInit ==
  /\ state = initialState
  /\ history = <<>>
  /\ listeners = EmptyObject
  /\ storage = <<>>
  /\ settingsStorage = EmptyObject
  /\ now = 1
  /\ searchCache = EmptyObject
  /\ run = [pc |-> "debounce", clock |-> 0, timers |-> {}, debounceTimer |-> 0,
            calls |-> <<>>, delivered |-> <<>>]
  /\ input = NoInput
  /\ last = [n |-> 0, op |-> "none", result |-> FALSE, wrote |-> FALSE,
             calls |-> <<>>, escaped |-> FALSE, args |-> EmptyObject]

DebounceNext == DebouncedSearchCall \/ TimerFires \/ Tick

DebounceSpec ==
  DebounceInit /\ [][DebounceNext]_vars /\ WF_vars(TimerFires) /\ WF_vars(Tick)

\* the quiz page from DOMContentLoaded on
QuizInit ==
  /\ state = initialState
  /\ history = <<>>
  /\ listeners = EmptyObject
  /\ storage = <<>>
  /\ settingsStorage = EmptyObject
  /\ now = 1
  /\ searchCache = EmptyObject
  /\ run = [pc |-> "loading", questions |-> <<>>, index |-> 0,
            texts |-> [i \in 1..ChoiceButtons |-> ""], correctLabel |-> Undefined,
            feedback |-> ""]
  /\ input = NoInput
  /\ last = [n |-> 0, op |-> "none", result |-> FALSE, wrote |-> FALSE,
             calls |-> <<>>, escaped |-> FALSE, args |-> EmptyObject]

QuizNext == LoadQuestions \/ DetectionReturns \/ ChoiceClick \/ NextQuestion

QuizSpec == QuizInit /\ [][QuizNext]_vars

\* the quiz page when its script has run: loadQuestions(5, 1) is waiting for
\* the questions
PageInit ==
  /\ state = initialState
  /\ history = <<>>
  /\ listeners = EmptyObject
  /\ storage = <<>>
  /\ settingsStorage = EmptyObject
  /\ now = 1
  /\ searchCache = EmptyObject
  /\ run = [pc |-> "page", questions |-> <<>>, round |-> 0, index |-> 0,
            currentStage |-> 1, activeLevel |-> 1,
            texts |-> [i \in 1..ChoiceButtons |-> ""], judged |-> Undefined,
            bound |-> FALSE, disabled |-> FALSE, visible |-> TRUE, feedback |-> "",
            loads |-> <<1>>, detections |-> {}, nextTimers |-> 0, showTimers |-> 0,
            options |-> <<>>, answered |-> FALSE]
  /\ input = NoInput
  /\ last = [n |-> 0, op |-> "none", result |-> FALSE, wrote |-> FALSE,
             calls |-> <<>>, escaped |-> FALSE, args |-> EmptyObject]

PageNext ==
  \/ LevelButtonClick
  \/ QuestionsArrive
  \/ QuestionsFail
  \/ DetectionArrives
  \/ AnswerClick
  \/ NextQuestionTimer
  \/ CompletionTimer
  \/ OptionClick

PageSpec == PageInit /\ [][PageNext]_vars

LoadInit == \E arguments \in LoadInputs : InitWith(arguments)

LoadNext == LoadQuestionsCall

LoadSpec == LoadInit /\ [][LoadNext]_vars

\* the messages of the page: no message is set and no timeout is pending
MessageInit ==
  /\ state = initialState
  /\ history = <<>>
  /\ listeners = EmptyObject
  /\ storage = <<>>
  /\ settingsStorage = EmptyObject
  /\ now = 1
  /\ searchCache = EmptyObject
  /\ run = [pc |-> "messages", clock |-> 0, timers |-> {}, shown |-> 0,
            errorAt |-> 0, successAt |-> 0]
  /\ input = NoInput
  /\ last = [n |-> 0, op |-> "none", result |-> FALSE, wrote |-> FALSE,
             calls |-> <<>>, escaped |-> FALSE, args |-> EmptyObject]

MessageNext == SetError \/ SetSuccess \/ HideTimerFires \/ SecondPasses

MessageSpec == MessageInit /\ [][MessageNext]_vars

\* the task list before the tag filter is used: activeFilters is {} and every
\* task is shown
TagFilterInit ==
  \E arguments \in TagFilterInputs :
    /\ state = initialState
    /\ history = <<>>
    /\ listeners = EmptyObject
    /\ storage = <<>>
    /\ settingsStorage = EmptyObject
    /\ now = 1
    /\ searchCache = EmptyObject
    /\ run = [pc |-> "filter", activeFilters |-> EmptyObject,
              filteredTasks |-> arguments.tasks, tag |-> <<>>, used |-> FALSE]
    /\ input = arguments
    /\ last = [n |-> 0, op |-> "none", result |-> FALSE, wrote |-> FALSE,
               calls |-> <<>>, escaped |-> FALSE, args |-> EmptyObject]

TagFilterNext == HandleFilter

TagFilterSpec == TagFilterInit /\ [][TagFilterNext]_vars

\* the task form filled in, with the time unit of the settings in storage
FormInit ==
  \E arguments \in FormInputs :
    /\ state = initialState
    /\ history = <<>>
    /\ listeners = EmptyObject
    /\ storage = <<>>
    /\ settingsStorage = [timeUnit |-> arguments.timeUnit]
    /\ now = 1
    /\ searchCache = EmptyObject
    /\ run = Idle
    /\ input = arguments
    /\ last = [n |-> 0, op |-> "none", result |-> FALSE, wrote |-> FALSE,
               calls |-> <<>>, escaped |-> FALSE, args |-> EmptyObject]

FormNext == HandleFormSubmit

FormSpec == FormInit /\ [][FormNext]_vars

\* calls of checkDuplicateWords and extractPatterns, followed through the passes
\* of their loops
PatternNext == CheckDuplicateWordsCall \/ ExtractPatternsCall \/ PatternLoop

PatternSpec == Init /\ [][PatternNext]_vars

(***************************************************************************)
(* Properties of the task actions.                                         *)
(***************************************************************************)
TaskOps == {"addTask", "updateTask", "deleteTask"}

\* this step is a call of the store that returned
Returned == last'.n = last.n + 1

HasId(tasks, taskId) == \E i \in 1..Len(tasks) : tasks[i].id = taskId

\* C1: after every addTask, updateTask or deleteTask call the collection in
\* memory is the collection last written to storage; a call whose saveTasks
\* failed returns false, sets error and leaves the collection as it was.
C1_WriteThrough ==
  [][(Returned /\ last'.op \in TaskOps) =>
       /\ state'.tasks = storage'
       /\ (last'.wrote /\ ~last'.args.saveOk) =>
            /\ ~last'.result
            /\ state'.error # Null
            /\ state'.tasks = state.tasks
            /\ storage' = storage]_vars

\* a write failed while the collection held a task
C1_Witness ==
  /\ last.op \in TaskOps
  /\ last.wrote
  /\ ~last.args.saveOk
  /\ ~last.result
  /\ Len(state.tasks) > 0

\* the merged record of an updateTask call in the state before it
MergedRecord == updatedTaskOf(state.tasks[findIndex(state.tasks, last'.args.taskId)],
                              last'.args.updates, now')

C2_InvalidAdd == last'.op = "addTask" /\ ~validateTask(last'.args.taskData).isValid
C2_InvalidUpdate ==
  /\ last'.op = "updateTask"
  /\ HasId(state.tasks, last'.args.taskId)
  /\ ~validateTask(MergedRecord).isValid
C2_NotFound ==
  /\ last'.op \in {"updateTask", "deleteTask"}
  /\ ~HasId(state.tasks, last'.args.taskId)

\* every field error of a validation is in formErrors
Reported(errors, formErrors) ==
  \A f \in DOMAIN errors : f \in DOMAIN formErrors /\ formErrors[f] = errors[f]

\* C2: an addTask with invalid data, an updateTask whose merged record is
\* invalid and an updateTask or deleteTask of an id that is not in the collection
\* return false, set error (and formErrors after a validation), write nothing and
\* leave the collection as it was.
C2_RejectedCallsChangeNothing ==
  [][(Returned /\ (C2_InvalidAdd \/ C2_InvalidUpdate \/ C2_NotFound)) =>
       /\ ~last'.result
       /\ state'.error # Null
       /\ ~last'.wrote
       /\ storage' = storage
       /\ state'.tasks = state.tasks
       /\ C2_InvalidAdd =>
            Reported(validateTask(last'.args.taskData).errors, state'.formErrors)
       /\ C2_InvalidUpdate =>
            Reported(validateTask(MergedRecord).errors, state'.formErrors)]_vars

\* an updateTask of a task of the collection was rejected by the validation
C2_Witness ==
  /\ last.op = "updateTask"
  /\ HasId(state.tasks, last.args.taskId)
  /\ ~last.result
  /\ state.error = "Invalid task data"
  /\ "title" \in DOMAIN state.formErrors

DayFreeStats == {"totalTasks", "totalDuration", "topTag", "completedTasks"}

\* C4: whenever a store action has returned, stats is what calculateStats derives
\* from the collection of that moment: totalTasks is the number of tasks,
\* completedTasks the number of completed tasks, and so for the total duration and
\* the top tag.
C4_StatsFollowTasks ==
  \A f \in DayFreeStats : state.stats[f] = computeStats(state.tasks, now)[f]

\* C5: every task is completed exactly when it has a completedAt timestamp.
C5_CompletedIffCompletedAt ==
  \A i \in 1..Len(state.tasks) :
    state.tasks[i].completed <=> state.tasks[i].completedAt # NoStamp

\* C35: an updateTask call that succeeds stamps completedAt with the current
\* time when it takes completed from false to true, clears it when it takes
\* completed from true to false, and with any other patch leaves a completedAt
\* the task has as it is.
C35_CompletedAtFollowsTheFlag ==
  [][(Returned /\ last'.op = "updateTask" /\ last'.result) =>
       LET i == findIndex(state.tasks, last'.args.taskId)
           prevTask == state.tasks[i]
           task == state'.tasks[i]
       IN /\ (~prevTask.completed /\ task.completed) => task.completedAt = now'
          /\ (prevTask.completed /\ ~task.completed) => task.completedAt = NoStamp
          /\ (prevTask.completed = task.completed /\ prevTask.completedAt # NoStamp)
               => task.completedAt = prevTask.completedAt]_vars

\* C6: the ids of the tasks of the collection are pairwise distinct.
C6_IdsDistinct ==
  \A i, j \in 1..Len(state.tasks) :
    i # j => state.tasks[i].id # state.tasks[j].id

\* C7: every task in persistent storage passes validateTask.
C7_StoredTasksValid ==
  \A i \in 1..Len(storage) : validateTask(storage[i]).isValid

(***************************************************************************)
(* Properties of the notifications.                                        *)
(***************************************************************************)
\* callback cb of key was called with value
Called(calls, key, cb, value) ==
  \E c \in 1..Len(calls) :
    calls[c].key = key /\ calls[c].cb = cb /\ calls[c].value = value

\* C8: whatever a subscriber throws, a setState call invokes every subscriber of
\* every key of its update, lets no exception out, and leaves the state with the
\* update merged in.
C8_ThrowingSubscriberIsContained ==
  [][(Returned /\ last'.op = "setState") =>
       LET updates == last'.args.updates
       IN /\ \A i \in 1..Len(updates) :
               \A j \in 1..Len(ListenersOf(updates[i][1])) :
                 Called(last'.calls, updates[i][1], ListenersOf(updates[i][1])[j],
                        updates[i][2])
          /\ ~last'.escaped
          /\ \A i \in 1..Len(updates) : state'[updates[i][1]] = updates[i][2]
          /\ \A k \in DOMAIN state \ {updates[i][1] : i \in 1..Len(updates)} :
               state'[k] = state[k]]_vars

\* a subscriber threw, and a subscriber of the same key and one of the next key
\* were called after it
C8_Witness ==
  /\ last.op = "setState"
  /\ \E i, j, k \in 1..Len(last.calls) :
       /\ i < j /\ j < k
       /\ last.calls[i].threw
       /\ last.calls[j].key = last.calls[i].key /\ ~last.calls[j].threw
       /\ last.calls[k].key # last.calls[i].key

\* C9: no chain of nested setState calls that the application's subscribers
\* start runs until the call stack is exhausted: every call of a subscriber
\* returns without the engine having cut it short.
C9_NestedCallsTerminate ==
  \A c \in 1..Len(last.calls) : ~last.calls[c].threw

\* C10: undo() on an empty history returns false and changes neither the state
\* nor the history; otherwise it removes the most recent entry and no other, sets
\* the state to that entry's prior snapshot, calls the subscribers of every key
\* whose value the entry had changed with the restored value, and returns true.
C10_Undo ==
  [][(Returned /\ last'.op = "undo") =>
       IF history = <<>>
       THEN ~last'.result /\ state' = state /\ history' = history
       ELSE LET entry == history[Len(history)]
            IN /\ last'.result
               /\ history' = SubSeq(history, 1, Len(history) - 1)
               /\ state' = entry.prevState
               /\ \A k \in DOMAIN entry.newState :
                    entry.newState[k] # entry.prevState[k] =>
                      \A j \in 1..Len(ListenersOf(k)) :
                        Called(last'.calls, k, ListenersOf(k)[j], entry.prevState[k])]_vars

\* an undo took the latest of several entries and a subscriber was told
C10_Witness ==
  /\ last.op = "undo"
  /\ last.result
  /\ Len(history) >= 1
  /\ \E c \in 1..Len(last.calls) :
       last.calls[c].key = "error" /\ last.calls[c].old = "Oops"

(***************************************************************************)
(* Properties of the history.                                              *)
(***************************************************************************)
\* C11: the history never holds more than maxHistorySize entries, and a
\* setState that records an entry while the history is full evicts the oldest
\* entry and no other.
C11_HistoryIsARing ==
  [][/\ Len(history') <= maxHistorySize
     /\ (last'.op = "setState" /\ last'.args.saveToHistory
           /\ Len(history) = maxHistorySize) =>
          history' = Tail(history) \o <<[timestamp |-> now', prevState |-> state,
                                         newState |-> state']>>]_vars

\* an entry was recorded while the history was full, and the entries left differ
C11_Witness ==
  /\ last.op = "setState"
  /\ last.args.saveToHistory
  /\ last.args.wasFull
  /\ Len(history) = maxHistorySize
  /\ history[1].timestamp < history[maxHistorySize].timestamp

\* C12: a setState call invokes the subscribers of the keys whose value it
\* changed, each once with the new and the previous value, and no subscriber of
\* a key that is absent from the update or whose value stayed the same.
C12_NotifiesChangedKeysOnly ==
  [][(Returned /\ last'.op = "setState") =>
       /\ \A k \in DOMAIN state :
            state'[k] # state[k] =>
              \A j \in 1..Len(ListenersOf(k)) :
                \E c \in 1..Len(last'.calls) :
                  /\ last'.calls[c].key = k
                  /\ last'.calls[c].cb = ListenersOf(k)[j]
                  /\ last'.calls[c].value = state'[k]
                  /\ last'.calls[c].old = state[k]
       /\ \A c \in 1..Len(last'.calls) :
            state'[last'.calls[c].key] # state[last'.calls[c].key]]_vars

\* C34: the subscribers of a setState call are all called before those of a
\* setState call that one of them makes, and each is called with the value the
\* outer call wrote.
C34_NestedUpdateWaitsForThePass ==
  [][(Returned /\ last'.op = "setState") =>
       LET calls == last'.calls
           merged == deepMerge(state, last'.args.updates)
       IN \A c \in 1..Len(calls) :
            calls[c].depth = 1 =>
              /\ calls[c].value = merged[calls[c].key]
              /\ \A d \in 1..(c - 1) : calls[d].depth = 1]_vars

\* C13: what a receiver of getState('tasks') does to the value it received
\* changes neither the state of the store nor a snapshot of the history.
C13_ReceiversCannotChangeTheStore ==
  [][(Returned /\ last'.op = "updateRecentTasks") =>
       state' = state /\ history' = history]_vars

(***************************************************************************)
(* Properties of the weekly goal.                                          *)
(***************************************************************************)
\* round(a / b * 100) for amounts that are not negative
RoundedPercent(a, b) == (200 * a + b) \div (2 * b)

\* C14: capSettings reports percentage = round(achieved / goal * 100) and
\* isOverCap = (achieved > goal), and its status is warning exactly when the
\* percentage it reports is above 80 and at most 100.
C14_StatusFollowsReportedPercentage ==
  "percentage" \in DOMAIN state.capSettings =>
    LET cap == state.capSettings
    IN /\ cap.percentage = RoundedPercent(cap.currentWeekDuration, cap.durationCap)
       /\ cap.isOverCap = (cap.currentWeekDuration > cap.durationCap)
       /\ cap.capStatus = "warning" <=>
            (cap.percentage > WarningPercent /\ cap.percentage <= FullPercent)

\* the call recomputed capSettings
C15_Recomputed ==
  \/ last'.op \in {"addTask", "updateTask", "deleteTask", "loadTasks"} /\ last'.result
  \/ /\ last'.op = "updateSettings" /\ last'.result
     /\ "durationCap" \in DOMAIN last'.args.updates

\* C15: whenever capSettings is recomputed, its currentWeekDuration is the
\* duration of the tasks completed in the trailing week.
C15_GoalTracksCompletedDuration ==
  [][(Returned /\ C15_Recomputed) =>
       state'.capSettings.currentWeekDuration
         = computeStats(state'.tasks, now').completedDurationWeek]_vars

\* C16: when the unit changes from hours to minutes the persisted durationCap
\* is multiplied by 60, and when it changes from minutes to hours it is divided
\* by 60, whichever of the two listeners runs first.
C16_CapConvertedOnce ==
  [][(Returned /\ last'.op = "changeTimeUnit") =>
       LET old == loadSettings(settingsStorage)
           new == loadSettings(settingsStorage')
       IN /\ (old.timeUnit = "hours" /\ last'.args.unit = "minutes") =>
               new.durationCap = old.durationCap * MinutesPerHour
          /\ (old.timeUnit = "minutes" /\ last'.args.unit = "hours") =>
               new.durationCap = old.durationCap \div MinutesPerHour]_vars


\* this step is a searchTasks call that returned or threw
Searched == last'.op = "searchTasks"

\* the matches of the query in a field and the score they add up to for a task
MatchCount(text, regex) == Len(execAll(text, regex, 0))

ExpectedScore(task, fields, regex) ==
  SumSeq([i \in 1..Len(fields) |->
            MatchCount(FieldValue(task, fields[i]), regex) * getFieldWeight(fields[i])])

\* the results are, in some order, one for each of the tasks numbered in matching
OnePerTask(results, tasks, matching, fields, regex) ==
  /\ Len(results) = Cardinality(matching)
  /\ \E f \in [1..Len(results) -> matching] :
       /\ \A i, j \in 1..Len(results) : f[i] = f[j] => i = j
       /\ \A j \in 1..Len(results) :
            /\ results[j].task = tasks[f[j]]
            /\ results[j].score = ExpectedScore(tasks[f[j]], fields, regex)
            /\ results[j].score > 0

\* C17: for a non-empty query that compiles, searchTasks returns exactly one result
\* for each task with a regex match in one of the configured fields and none for
\* any other task, each with the score sum of match count times field weight,
\* which is positive (as far as maxResults leaves room); so a query equal to a
\* tag that exactly one task carries returns exactly that task.
C17_OneResultPerMatchingTask ==
  [][(Searched /\ Trim(last'.args.query) # <<>> /\ ~RegExpThrows(last'.args.query)) =>
       LET query == last'.args.query
           options == last'.args.options
           fields == OptionOr(options, "fields", defaultFields)
           regex == [source |-> query,
                     flags |-> IF OptionOr(options, "caseSensitive", FALSE) THEN "g" ELSE "gi"]
           tasks == state.tasks
           matching == {i \in 1..Len(tasks) : ExpectedScore(tasks[i], fields, regex) > 0}
           tagged == {i \in 1..Len(tasks) : tasks[i].tag = query}
       IN /\ Cardinality(matching) <= OptionOr(options, "maxResults", DefaultMaxResults) =>
               OnePerTask(last'.result, tasks, matching, fields, regex)
          /\ (Cardinality(tagged) = 1 /\ options = EmptyObject) =>
               /\ Len(last'.result) = 1
               /\ \A i \in tagged : last'.result[1].task = tasks[i]]_vars

\* the results with equal scores stand in the order of their tasks in the collection
KeepsOrder(results, tasks) ==
  \E f \in [1..Len(results) -> 1..Len(tasks)] :
    /\ \A j \in 1..Len(results) : results[j].task = tasks[f[j]]
    /\ \A i, j \in 1..Len(results) :
         (i < j /\ results[i].score = results[j].score) => f[i] < f[j]

\* C18: the list searchTasks returns is in non-increasing score order, results of
\* equal score keep the order of their tasks in the collection, and the list has at
\* most maxResults entries (1000 by default).
C18_SortedStableAndLimited ==
  [][Searched =>
       LET results == last'.result
       IN /\ \A j \in 1..(Len(results) - 1) : results[j].score >= results[j + 1].score
          /\ KeepsOrder(results, state.tasks)
          /\ Len(results) <= OptionOr(last'.args.options, "maxResults", DefaultMaxResults)]_vars

\* C19: with initialize called after every change of the collection, searchTasks
\* returns what an evaluation without the cache returns for the current collection
\* and the options given.
C19_CacheIsNeverStale ==
  [][Searched =>
       last'.result = searchTasks(EmptyObject, last'.args.query, state.tasks,
                                  last'.args.options).results]_vars

\* C20: searchTasks called with a query that is not a valid regular expression
\* returns an empty result list and raises no exception to the caller.
C20_InvalidQueryFindsNothing ==
  [][(Searched /\ RegExpThrows(last'.args.query)) =>
       last'.result = <<>> /\ ~last'.escaped]_vars

\* an invalid query was searched for in a collection in which valid queries find
\* tasks and have their results cached
C20_Witness ==
  /\ last.op = "searchTasks"
  /\ RegExpThrows(last.args.query)
  /\ Len(state.tasks) >= 2
  /\ DOMAIN searchCache # {}


\* the text holds a match of the regex
HasMatch(text, regex) ==
  \E i \in 0..Len(text) : MatchEnds(text, regex.source, regex.flags, i) # <<>>

\* C21: testRegex terminates for every text, compilable pattern and flags: each
\* pass of its loop that does not end it moves lastIndex forward, and the text has
\* only so many indices; and it returns success = true with a list of matches that
\* is empty exactly when the text has no match.
C21_TestRegexTerminates ==
  [][/\ (run.pc = "while" /\ run'.pc = "while") => run'.lastIndex > run.lastIndex
     /\ (run.pc = "while" /\ run'.pc = "returned") =>
          /\ run'.result.success
          /\ run'.result.matches # <<>> <=> HasMatch(run.text, run.regex)]_vars


\* the least whole number of days that reaches from the instant to the due date
DaysLeft(dueDate, nowHalf) ==
  CHOOSE d \in -400..400 :
    /\ d * HalfDaysPerDay >= DayNumber(dueDate) * HalfDaysPerDay - nowHalf
    /\ (d - 1) * HalfDaysPerDay < DayNumber(dueDate) * HalfDaysPerDay - nowHalf

\* the statuses a task with d days left has
StatusesOf(d) ==
  {s \in Statuses :
     \/ s = "overdue" /\ d < 0
     \/ s = "due-soon" /\ 0 <= d /\ d <= 3
     \/ s = "upcoming" /\ 4 <= d /\ d <= 30
     \/ s = "future" /\ d > 30}

\* the task meets every criterion the filters supply
MeetsAll(task, filters, nowHalf) ==
  \A key \in {k \in DOMAIN filters : Truthy(filters, k)} :
    CASE key = "tag" -> task.tag = filters.tag
      [] key = "dateFrom" -> DayNumber(task.dueDate) >= DayNumber(filters.dateFrom)
      [] key = "dateTo" -> DayNumber(task.dueDate) <= DayNumber(filters.dateTo)
      [] key = "durationMin" -> task.duration >= filters.durationMin
      [] key = "durationMax" -> task.duration <= filters.durationMax
      [] key = "status" -> filters.status \in StatusesOf(DaysLeft(task.dueDate, nowHalf))

PriorityRank(tag) ==
  IF tag = UrgentImportant THEN 1
  ELSE IF tag = ImportantNotUrgent THEN 2
  ELSE IF tag = UrgentNotImportant THEN 3
  ELSE 4

\* task a has to stand before task b under the criterion
Precedes(criterion, a, b) ==
  CASE criterion = "priority" -> PriorityRank(a.tag) < PriorityRank(b.tag)
    [] criterion = "title-asc" -> localeCompare(a.title, b.title) < 0
    [] criterion = "title-desc" -> localeCompare(a.title, b.title) > 0
    [] criterion = "tag-asc" -> localeCompare(a.tag, b.tag) < 0
    [] criterion = "tag-desc" -> localeCompare(a.tag, b.tag) > 0
    [] criterion = "date-asc" -> DayNumber(a.dueDate) < DayNumber(b.dueDate)
    [] criterion = "date-desc" -> DayNumber(a.dueDate) > DayNumber(b.dueDate)
    [] criterion = "duration-asc" -> a.duration < b.duration
    [] criterion = "duration-desc" -> a.duration > b.duration
    [] criterion = "created-asc" -> a.createdAt < b.createdAt
    [] criterion = "created-desc" -> a.createdAt > b.createdAt
    [] OTHER -> FALSE

IsNumeral(text) ==
  \E n \in 1..Len(text) :
    /\ \A i \in 1..n : IsDigit(text[i])
    /\ n = Len(text) \/ (n + 1 < Len(text) /\ text[n + 1] = "."
                           /\ \A i \in (n + 2)..Len(text) : IsDigit(text[i]))

\* the digits in front of the point and behind it
WholeDigits(text) == DigitPrefix(text)

DecimalDigits(text) == Behind(text, Len(DigitPrefix(text)) + 1)

\* the numeral has at most two decimal places and a value n with 0 < n <= 1000
InRange(text) ==
  /\ Len(DecimalDigits(text)) <= 2
  /\ NumberOf(WholeDigits(text)) + NumberOf(DecimalDigits(text)) > 0
  /\ \/ NumberOf(WholeDigits(text)) < 1000
     \/ NumberOf(WholeDigits(text)) = 1000 /\ NumberOf(DecimalDigits(text)) = 0

\* the whole part is written without a superfluous leading zero
NoLeadingZero(text) == Len(WholeDigits(text)) = 1 \/ Head(text) # "0"

\* C24, as stated: validateField('duration', v) is valid exactly when v is an
\* unsigned decimal numeral with at most two decimal places and a value n with
\* 0 < n <= 1000.  Violated by '01', '05' and '01.5'.
C24_DurationRule ==
  last.op = "validateField" =>
    (last.result <=> IsNumeral(input.value) /\ InRange(input.value))

\* C24, amended: validateField('duration', v) is valid exactly when v is an
\* unsigned decimal numeral written without a superfluous leading zero, with at
\* most two decimal places and a value n with 0 < n <= 1000; '0', '-5', '2.555'
\* and '1000.001' are invalid, '2.5', '10' and '1000' are valid.
C24_CanonicalDurationRule ==
  last.op = "validateField" =>
    /\ last.result <=>
         IsNumeral(input.value) /\ NoLeadingZero(input.value) /\ InRange(input.value)
    /\ input.value \in { <<"0">>, <<"-", "5">>, <<"2", ".", "5", "5", "5">>,
                         <<"1", "0", "0", "0", ".", "0", "0", "1">> } => ~last.result
    /\ input.value \in { <<"2", ".", "5">>, <<"1", "0">>, <<"1", "0", "0", "0">> }
         => last.result

\* the largest duration has been accepted
C24_Witness ==
  last.op = "validateField" /\ last.result /\ input.value = <<"1", "0", "0", "0">>


\* the tag contains a digit
HasDigit(text) == \E i \in 1..Len(text) : IsDigit(text[i])

\* the tag is made only of letters, spaces and hyphens, and has a letter
IsPlainTag(text) ==
  /\ \A i \in 1..Len(text) : text[i] \in {"a", "H", " ", "-"}
  /\ \E i \in 1..Len(text) : text[i] \in {"a", "H"}

\* C25: validateField('tag', v) rejects every tag that contains a digit and
\* accepts tags made only of letters, spaces and hyphens.
C25_TagRejectsDigits ==
  (last.op = "validateField" /\ "field" \in DOMAIN input) =>
    /\ HasDigit(input.value) => ~last.result
    /\ IsPlainTag(input.value) => last.result


\* the two objects have the same value under every key
SameFields(a, b) ==
  \A key \in DOMAIN a.fields \cup DOMAIN b.fields : Get(a.fields, key) = Get(b.fields, key)

\* the tasks of the input a structural check of the five fields lets pass
ValidOf(tasks) ==
  SelectSeq(tasks.elements,
            LAMBDA task :
              /\ \A key \in {"id", "title", "dueDate", "tag"} :
                   Get(task.fields, key).type = "string"
              /\ Get(task.fields, "duration").type = "number"
              /\ Get(task.fields, "duration").num >= 0
              /\ \A key \in optionalFields :
                   Get(task.fields, key).type \in {"undefined", "string"})

ElementsOf(jsonString) ==
  IF jsonString.tasks.type = "array" THEN jsonString.tasks.elements ELSE <<>>

\* the element passes the structural check of the claim: the five fields are
\* there with their primitive types and the duration is not negative
PassesCheck(task) ==
  /\ task.type = "object"
  /\ \A key \in {"id", "title", "dueDate", "tag"} : Get(task.fields, key).type = "string"
  /\ Get(task.fields, "duration").type = "number"
  /\ Get(task.fields, "duration").num >= 0

\* the number of tasks the errors list reports as skipped
Skipped(errors) == IF errors = <<>> THEN 0 ELSE errors[1].count

\* C27: importData never throws; a parse failure yields success=false with a
\* non-empty errors list and no tasks; otherwise each task is checked on its
\* own, the tasks failing the structural check are dropped and counted in
\* errors, and all remaining tasks are returned with success=true.
C27_ImportDropsInvalidTasks ==
  (last.op = "importData" /\ "jsonString" \in DOMAIN input) =>
    /\ ~last.escaped
    /\ ~input.jsonString.parses =>
         /\ ~last.result.success
         /\ last.result.errors # <<>>
         /\ last.result.tasks = <<>>
    /\ input.jsonString.parses =>
         /\ last.result.success
         /\ last.result.tasks = SelectSeq(ElementsOf(input.jsonString), PassesCheck)
         /\ Skipped(last.result.errors)
              = Len(ElementsOf(input.jsonString)) - Len(last.result.tasks)


\* call i is the last of its burst: no call follows it within the window
EndsBurst(calls, i) ==
  i = Len(calls) \/ calls[i + 1].at - calls[i].at >= DebounceDelay

\* the window of call i has elapsed and its timeout, if it was due, has run
WindowOver(i) ==
  \/ run.calls[i].at + DebounceDelay < run.clock
  \/ /\ run.calls[i].at + DebounceDelay = run.clock
     /\ Due(run.timers, run.clock) = {}

\* the calls whose callback must have run by now, in their order
Finished ==
  SelectSeq([i \in 1..Len(run.calls) |-> i],
            LAMBDA i : EndsBurst(run.calls, i) /\ WindowOver(i))

\* C28: a call of debouncedSearch that arrives before the window of the
\* previous call has elapsed cancels the pending callback: for every burst of
\* calls the callback runs exactly once, one window after the last call of the
\* burst, with the results of that call's query.
C28_DebounceRunsLastQueryOnce ==
  /\ [](run.pc = "debounce" =>
          /\ Len(run.delivered) = Len(Finished)
          /\ \A k \in 1..Len(Finished) :
               run.delivered[k].at = run.calls[Finished[k]].at + DebounceDelay)
  /\ [][(run.pc = "debounce" /\ Len(run'.delivered) > Len(run.delivered)) =>
          run'.delivered[Len(run'.delivered)].results
            = searchTasks(searchCache, run.calls[Len(run.calls)].query, DebounceTasks,
                          EmptyObject).results]_vars
  /\ \A n \in 1..MaxCalls :
       (run.pc = "debounce" /\ Len(run.calls) = n)
         ~> (Len(run.calls) > n \/ (Finished # <<>> /\ Finished[Len(Finished)] = n))

\* a burst of two calls with different queries, 100 or 200 ms apart, has been
\* answered once
C28_Witness ==
  /\ run.pc = "debounce"
  /\ Len(run.calls) = 2
  /\ run.calls[1].query # run.calls[2].query
  /\ run.calls[2].at - run.calls[1].at \in 1..(DebounceDelay - 1)
  /\ Len(run.delivered) = 1
  /\ run.timers = {}


\* the labels the questions of the round provide
RoundLabels == {run.questions[i] : i \in 1..Len(run.questions)} \ {Undefined}

\* the label of the question on the page
CurrentLabel == run.questions[run.index + 1]

\* C29: whenever the questions of the round provide at least 4 distinct labels,
\* a rendered question shows exactly 4 pairwise distinct choices, among which
\* the correct label appears exactly once.
C29_FourDistinctChoices ==
  (run.pc = "shown" /\ Cardinality(RoundLabels) >= 4) =>
    /\ \A i \in 1..ChoiceButtons : run.texts[i] # ""
    /\ \A i, j \in 1..ChoiceButtons : i # j => run.texts[i] # run.texts[j]
    /\ Cardinality({i \in 1..ChoiceButtons : run.texts[i] = CurrentLabel}) = 1

\* C30: a question without a ground-truth label for which the detection gave
\* no label still has a correct label from the placeholder pool, one of the
\* choices shown equals it, and a click on that choice is taken as correct.
C30_FallbackLabelIsSelectable ==
  (run.pc = "shown" /\ CurrentLabel = Undefined) =>
    /\ InSeq(PlaceholderPool, run.correctLabel)
    /\ \E i \in 1..ChoiceButtons :
         /\ run.texts[i] = run.correctLabel
         /\ onChoiceClick(run, i).pc = "correct"

(***************************************************************************)
(* Properties of the quiz page with its pending fetches, detections and    *)
(* timeouts.                                                               *)
(***************************************************************************)
\* C31: within a round the question index changes only by one step forward,
\* taken when a timeout of a correct answer expires and the question that was
\* the current one has been answered correctly; no question is passed over
\* unanswered.
C31_IndexAdvancesOnlyAfterCorrectAnswer ==
  [][ run'.round = run.round /\ run'.index # run.index
        => /\ run'.index = run.index + 1
           /\ run.nextTimers > 0
           /\ run.answered ]_vars

\* C33: when the completion options are put on display they are the three of a
\* level below 3 (replay, advance, exit) or the two of level 3 (replay from
\* level 1, exit), and the current level is always 1, 2 or 3.
C33_LevelStaysWithinThree ==
  /\ [](run.currentStage \in 1..3)
  /\ [][ run'.showTimers < run.showTimers
          => run'.options = IF run.currentStage < 3
                            THEN <<"Play Level Again", "Proceed", "Back to Home">>
                            ELSE <<"Play Quiz Again", "Back to Home">> ]_vars

\* C36: the result of a detection that belongs to a question which is no longer
\* the current one changes neither the texts of the choice buttons nor the
\* label the clicks are judged against.
C36_LateDetectionIsNotUsed ==
  [][ \A q \in run.detections :
        /\ q \notin run'.detections
        /\ run'.round = run.round /\ run'.index = run.index
        /\ (q.round # run.round \/ q.index # run.index)
        => run'.texts = run.texts /\ run'.judged = run.judged ]_vars


(***************************************************************************)
(* Properties of loadQuestions.                                            *)
(***************************************************************************)
\* the questions of the dataset whose id lies in the range of the level
LevelPool(data, level) == SelectSeq(data, LAMBDA d : inRange(d, ranges[level]))

\* C32: after loadQuestions(5, level) has succeeded the round holds different
\* questions, all of the level's id range, five of them or the whole pool of the
\* level if that is smaller, and index is 0.
C32_RoundComesFromLevelPool ==
  last.n = 1 /\ last.op = "loadQuestions" /\ last.result.ok
    => LET questions == last.result.questions
           pool == LevelPool(input.data, input.stage)
       IN /\ Len(questions) = (IF Len(pool) < 5 THEN Len(pool) ELSE 5)
          /\ \A i \in 1..Len(questions) : inRange(questions[i], ranges[input.stage])
          /\ \A i, j \in 1..Len(questions) : i # j => questions[i] # questions[j]
          /\ last.result.index = 0


(***************************************************************************)
(* Properties of the messages.                                             *)
(***************************************************************************)
\* C37: a timeout clears an error only when 5 seconds have passed since the
\* error was set, and a success message only when 3 seconds have passed since
\* it was set.
C37_MessageStaysItsOwnTime ==
  [][ /\ (state.error # Null /\ state'.error = Null /\ run'.shown = run.shown)
          => run.clock >= run.errorAt + ErrorHideDelay
      /\ (state.success # Null /\ state'.success = Null /\ run'.shown = run.shown)
          => run.clock >= run.successAt + SuccessHideDelay ]_vars


(***************************************************************************)
(* Properties of the tag filter.                                           *)
(***************************************************************************)
\* C38: after handleFilter with the empty value activeFilters has no tag and
\* the tasks of every tag are shown.
C38_EmptyTagRemovesTheFilter ==
  run.used /\ run.tag = <<>>
    => "tag" \notin DOMAIN run.activeFilters /\ run.filteredTasks = input.tasks


(***************************************************************************)
(* Properties of the task form.                                            *)
(***************************************************************************)
\* C39: in minutes mode a submission whose duration the form accepts is stored:
\* addTask does not reject it.
C39_MinutesAreStoredAsHours ==
  [][(Returned /\ last'.op = "handleFormSubmit" /\ input.timeUnit = "minutes"
        /\ validateDuration(input.duration))
       => last'.result /\ Len(state'.tasks) = Len(state.tasks) + 1]_vars


(***************************************************************************)
(* Properties of checkDuplicateWords and extractPatterns.                  *)
(***************************************************************************)
\* the text has a word that is repeated after blanks
HasRepeatedWord(text) ==
  \E i \in 0..(Len(text) - 1), k \in 1..Len(text) : RepeatAt(text, i, k)

\* C40: the loops of checkDuplicateWords and extractPatterns end: a pass that
\* does not end the loop finds its match further on in the text than the pass
\* before; and checkDuplicateWords returns hasDuplicates = true exactly when the
\* text has a word repeated next to itself.
C40_PatternLoopsTerminate ==
  [][ "fn" \in DOMAIN run /\ run.pc = "while" =>
       /\ (run'.pc = "while" /\ run.matches # <<>>) =>
            run'.matches[Len(run'.matches)].index > run.matches[Len(run.matches)].index
       /\ (run'.pc = "returned" /\ run.fn = "checkDuplicateWords") =>
            (run'.hasDuplicates <=> HasRepeatedWord(run.text)) ]_vars


====
